---- MODULE Spec2Model ----
(***************************************************************************)
(* The levels resource of the editor backend: a Level may name a parent    *)
(* Level and inherits every property it leaves unset.  Levels live in the  *)
(* datastore; merged Levels and whole HTTP responses are cached in         *)
(* memcache and evicted by the handlers that write.                        *)
(***************************************************************************)
EXTENDS Integers, Sequences, FiniteSets, TLC

VARIABLES
    store,      \* datastore: level id -> DatastoreLevel (entities of kind "Level")
    cache,      \* memcache: cache key -> marshalled item
    upserted,   \* history: level id -> the JsonLevel of the latest stored PUT/POST, {} if none
    last,       \* history: the latest request and its response
    calls       \* the requests in flight, statement by statement: slot -> call

vars == <<store, cache, upserted, last, calls>>

----------------------------------------------------------------------------
(* Bounds *)

\* Property values of the request payloads range over 0..MaxVal.
MaxVal == 1

\* The level ids of the requests, in the order of the datastore's key index.
IdSeq == <<"a", "b", "c">>

Ids == {IdSeq[i] : i \in 1..Len(IdSeq)}

IndexOf(id) == CHOOSE i \in 1..Len(IdSeq) : IdSeq[i] = id

LevelNames == <<"test level", "test level 2", "test level 3">>

\* The listing is checked against a store of up to MaxStored levels, whose
\* ids follow those of IdSeq in the key index.
MaxStored == 102

BulkIdSeq == [i \in 1..MaxStored |-> "test_key_" \o ToString(1000 + i)]

KeyIndex == IdSeq \o BulkIdSeq

UnitType == "grunt_fire"

----------------------------------------------------------------------------
(* Go values *)

\* A Go pointer is nil or points to one value.
Nil == {}

Ptr(v) == {v}

Deref(p) == CHOOSE v \in p : TRUE

\* Program constants of the levels package and of net/http.
queryAllKey == "query:all@levels"

QueryLimit == 100

StatusOK == 200

StatusNotFound == 404

StatusInternalServerError == 500

\* error values
NoError == "nil"

ErrNoSuchEntity == "datastore: no such entity"

ErrCacheMiss == "memcache: cache miss"

\* getLevel calls itself without end on a parent cycle: the call never returns.
NoReturn == "no return"

----------------------------------------------------------------------------
(* level.JsonLevel and level.DatastoreLevel *)

JsonLevel(key, parent, name, rows, cols, health, duration, combo, delay, active, spawns, freq) ==
    [Key |-> key, Parent |-> parent, Name |-> name, Rows |-> rows,
     Columns |-> cols, Health |-> health, Duration |-> duration,
     ComboTimer |-> combo, UnitDelayMultiplier |-> delay,
     MaxActiveUnits |-> active, SpawnsPerSecond |-> spawns,
     SpawnFrequency |-> freq]

\* The zero value of the DatastoreLevel struct.
DatastoreLevel ==
    [Key |-> "", HasKey |-> FALSE,
     Parent |-> "", HasParent |-> FALSE,
     Name |-> "", HasName |-> FALSE,
     Rows |-> 0, HasRows |-> FALSE,
     Columns |-> 0, HasColumns |-> FALSE,
     Health |-> 0, HasHealth |-> FALSE,
     Duration |-> 0, HasDuration |-> FALSE,
     ComboTimer |-> 0, HasComboTimer |-> FALSE,
     UnitDelayMultiplier |-> 0, HasUnitDelayMultiplier |-> FALSE,
     MaxActiveUnits |-> 0, HasMaxActiveUnits |-> FALSE,
     SpawnsPerSecond |-> 0, HasSpawnsPerSecond |-> FALSE,
     SpawnFrequency |-> <<>>, HasSpawnFrequency |-> FALSE]

\* The names of the inheritable properties, and of their presence flags.
Fields == {"Name", "Rows", "Columns", "Health", "Duration", "ComboTimer",
           "UnitDelayMultiplier", "MaxActiveUnits", "SpawnsPerSecond",
           "SpawnFrequency"}

Has(f) == "Has" \o f

\* The merge of one property with a slip: the parent's value overwrites the
\* value of the level.
MergeProperty_ParentWins(level, parentLevel, f) ==
    IF parentLevel[Has(f)]
    THEN [level EXCEPT ![Has(f)] = TRUE, ![f] = parentLevel[f]]
    ELSE level

\* One block of MergeParentProperties: a property the level leaves unset and
\* the parent sets is copied with its flag.
MergeProperty(level, parentLevel, f) ==
    IF ~level[Has(f)] /\ parentLevel[Has(f)]
    THEN [level EXCEPT ![Has(f)] = TRUE, ![f] = parentLevel[f]]
    ELSE level

\* MergeParentProperties: the ten blocks in the order of the source; Key and
\* Parent are not touched.
MergeParentProperties(level, parentLevel) ==
    MergeProperty(
     MergeProperty(
      MergeProperty(
       MergeProperty(
        MergeProperty(
         MergeProperty(
          MergeProperty(
           MergeProperty(
            MergeProperty(
             MergeProperty(level, parentLevel, "Name"),
             parentLevel, "Rows"),
            parentLevel, "Columns"),
           parentLevel, "Health"),
          parentLevel, "Duration"),
         parentLevel, "ComboTimer"),
        parentLevel, "UnitDelayMultiplier"),
       parentLevel, "MaxActiveUnits"),
      parentLevel, "SpawnsPerSecond"),
     parentLevel, "SpawnFrequency")

\* The spawn_frequency object is a map from unit type to frequency; the
\* datastore keeps it as a slice of (UnitType, SpawnFrequency) structs.  Go
\* ranges over a map in no fixed order; the maps of the payloads here hold at
\* most one unit type, so the slice is determined.
RECURSIVE MapToSlice(_)
MapToSlice(m) ==
    IF DOMAIN m = {} THEN <<>>
    ELSE LET key == CHOOSE k \in DOMAIN m : TRUE
             rest == [k \in DOMAIN m \ {key} |-> m[k]]
         IN  <<[UnitType |-> key, SpawnFrequency |-> m[key]]>> \o MapToSlice(rest)

\* A later element of the slice overwrites an earlier one of the same unit type.
SliceToMap(s) ==
    [u \in {s[i].UnitType : i \in 1..Len(s)} |->
        LET i == CHOOSE j \in 1..Len(s) :
                    /\ s[j].UnitType = u
                    /\ \A k \in (j+1)..Len(s) : s[k].UnitType # u
        IN  s[i].SpawnFrequency]

ToDatastoreLevel(level) ==
    [Key |-> IF level.Key # Nil THEN Deref(level.Key) ELSE "",
     HasKey |-> level.Key # Nil,
     Parent |-> IF level.Parent # Nil THEN Deref(level.Parent) ELSE "",
     HasParent |-> level.Parent # Nil,
     Name |-> IF level.Name # Nil THEN Deref(level.Name) ELSE "",
     HasName |-> level.Name # Nil,
     Rows |-> IF level.Rows # Nil THEN Deref(level.Rows) ELSE 0,
     HasRows |-> level.Rows # Nil,
     Columns |-> IF level.Columns # Nil THEN Deref(level.Columns) ELSE 0,
     HasColumns |-> level.Columns # Nil,
     Health |-> IF level.Health # Nil THEN Deref(level.Health) ELSE 0,
     HasHealth |-> level.Health # Nil,
     Duration |-> IF level.Duration # Nil THEN Deref(level.Duration) ELSE 0,
     HasDuration |-> level.Duration # Nil,
     ComboTimer |-> IF level.ComboTimer # Nil THEN Deref(level.ComboTimer) ELSE 0,
     HasComboTimer |-> level.ComboTimer # Nil,
     UnitDelayMultiplier |-> IF level.UnitDelayMultiplier # Nil
                             THEN Deref(level.UnitDelayMultiplier) ELSE 0,
     HasUnitDelayMultiplier |-> level.UnitDelayMultiplier # Nil,
     MaxActiveUnits |-> IF level.MaxActiveUnits # Nil
                        THEN Deref(level.MaxActiveUnits) ELSE 0,
     HasMaxActiveUnits |-> level.MaxActiveUnits # Nil,
     SpawnsPerSecond |-> IF level.SpawnsPerSecond # Nil
                         THEN Deref(level.SpawnsPerSecond) ELSE 0,
     HasSpawnsPerSecond |-> level.SpawnsPerSecond # Nil,
     SpawnFrequency |-> IF level.SpawnFrequency # Nil
                        THEN MapToSlice(Deref(level.SpawnFrequency)) ELSE <<>>,
     HasSpawnFrequency |-> level.SpawnFrequency # Nil]

ToJsonLevel(level) ==
    JsonLevel(IF level.HasKey THEN Ptr(level.Key) ELSE Nil,
              IF level.HasParent THEN Ptr(level.Parent) ELSE Nil,
              IF level.HasName THEN Ptr(level.Name) ELSE Nil,
              IF level.HasRows THEN Ptr(level.Rows) ELSE Nil,
              IF level.HasColumns THEN Ptr(level.Columns) ELSE Nil,
              IF level.HasHealth THEN Ptr(level.Health) ELSE Nil,
              IF level.HasDuration THEN Ptr(level.Duration) ELSE Nil,
              IF level.HasComboTimer THEN Ptr(level.ComboTimer) ELSE Nil,
              IF level.HasUnitDelayMultiplier
                  THEN Ptr(level.UnitDelayMultiplier) ELSE Nil,
              IF level.HasMaxActiveUnits THEN Ptr(level.MaxActiveUnits) ELSE Nil,
              IF level.HasSpawnsPerSecond THEN Ptr(level.SpawnsPerSecond) ELSE Nil,
              IF level.HasSpawnFrequency
                  THEN Ptr(SliceToMap(level.SpawnFrequency)) ELSE Nil)

----------------------------------------------------------------------------
(* encoding/json *)

\* A JSON document: <<"null">>, <<"string", s>>, <<"object", members>> or
\* <<"array", elements>>.
JsonNull == <<"null">>

JsonString(s) == <<"string", s>>

JsonObject(members) == <<"object", members>>

JsonArray(elements) == <<"array", elements>>

\* The json tags of JsonLevel: every member is omitempty, and a nil pointer
\* is empty, so the object holds exactly the members whose pointer is set.
JsonTag ==
    [Key |-> "key", Parent |-> "parent_key", Name |-> "name", Rows |-> "rows",
     Columns |-> "columns", Health |-> "health_bar", Duration |-> "duration",
     ComboTimer |-> "combo_timer",
     UnitDelayMultiplier |-> "unit_delay_multiplier",
     MaxActiveUnits |-> "max_active_units",
     SpawnsPerSecond |-> "spawns_per_second",
     SpawnFrequency |-> "spawn_frequency"]

MarshalJsonLevel(level) ==
    LET present == {f \in DOMAIN JsonTag : level[f] # Nil}
        field(tag) == CHOOSE f \in present : JsonTag[f] = tag
    IN  JsonObject([tag \in {JsonTag[f] : f \in present} |-> Deref(level[field(tag)])])

\* A nil slice of levels marshals to null, any other slice to an array.
MarshalJsonLevels(levels) ==
    IF levels = <<>> THEN JsonNull
    ELSE JsonArray([i \in 1..Len(levels) |-> MarshalJsonLevel(levels[i])])

----------------------------------------------------------------------------
(* net/http and gin: what a handler writes to the client *)

\* context.JSON marshals its argument; a value read back from the response
\* cache is already a JSON document and is written as it is.
ContextJSON(code, document) ==
    [code |-> code, ctype |-> "application/json", body |-> document]

ContextString(code, text) ==
    [code |-> code, ctype |-> "text/plain", body |-> <<"text", text>>]

\* The handler has not answered: no request yet, or a call that never returns.
NoResponse == [code |-> 0, ctype |-> "", body |-> <<"none">>]

----------------------------------------------------------------------------
(* package cache, over memcache *)

\* responseCacheEntry.GetCacheKey
ResponseCacheKey(path) == "response:" \o path

\* levelCacheEntry.GetCacheKey
LevelCacheKey(key) == "level:" \o key

\* responseCacheEntry.MarshalBinary: the Response member is marshalled by its
\* dynamic type, and UnmarshalBinary reads it back as a generic document.
MarshalResponseEntry(path, code, document) ==
    JsonObject([Path |-> path, Code |-> code, Response |-> document])

UnmarshalResponseEntry(data) == data[2]

\* levelCacheEntry.MarshalBinary: an object with one member per struct field.
MarshalLevelEntry(entry) == JsonObject(entry)

UnmarshalLevelEntry(data) == data[2]

\* GetCachedResource: the error of memcache.Get, nil on a hit.
GetCachedResource(c, cacheKey) ==
    IF cacheKey \in DOMAIN c THEN NoError ELSE ErrCacheMiss

\* CacheResource: memcache.Set of the marshalled item under its key.
CacheResource(c, cacheKey, data) ==
    [k \in DOMAIN c \cup {cacheKey} |-> IF k = cacheKey THEN data ELSE c[k]]

\* InvalidateCacheEntry: memcache.Delete of the key.
InvalidateCacheEntry(c, cacheKey) ==
    [k \in DOMAIN c \ {cacheKey} |-> c[k]]

----------------------------------------------------------------------------
(* appengine/datastore *)

\* datastore.Put under makeDatastoreKey(key).
DatastorePut(s, key, entity) ==
    [k \in DOMAIN s \cup {key} |-> IF k = key THEN entity ELSE s[k]]

\* datastore.Delete; deleting a key that is not stored succeeds.
DatastoreDelete(s, key) ==
    [k \in DOMAIN s \ {key} |-> s[k]]

\* The ids of a set of entities in the order of the key index.
KeysInOrder(keys) ==
    SelectSeq(IF keys \subseteq Ids THEN IdSeq ELSE KeyIndex, LAMBDA id : id \in keys)

\* The keys query with a slip: no limit.
QueryAllKeys_Unlimited(s) == KeysInOrder(DOMAIN s)

\* NewQuery(kind).Ancestor(root).Limit(100).KeysOnly()
QueryAllKeys(s) ==
    LET keys == KeysInOrder(DOMAIN s)
    IN  IF Len(keys) > QueryLimit THEN SubSeq(keys, 1, QueryLimit) ELSE keys

\* NewQuery(kind).Ancestor(root).Filter("Parent =", parentId).KeysOnly()
QueryChildKeys(s, parentId) ==
    KeysInOrder({k \in DOMAIN s : s[k].Parent = parentId})

----------------------------------------------------------------------------
(* Helpers of the levels package *)

buildResourcePath(levelId) == "/levels/" \o levelId

\* getLevel with a slip: a parent that fails to resolve is passed over and
\* the level is returned and cached without inherited properties.
RECURSIVE getLevel_IgnoringMissingParent(_, _, _, _)
getLevel_IgnoringMissingParent(levelId, c, s, calling) ==
    IF GetCachedResource(c, LevelCacheKey(levelId)) = NoError
    THEN [err |-> NoError,
          result |-> UnmarshalLevelEntry(c[LevelCacheKey(levelId)]),
          cache |-> c]
    ELSE IF levelId \in calling
    THEN [err |-> NoReturn, cache |-> c]
    ELSE IF levelId \notin DOMAIN s
    THEN [err |-> ErrNoSuchEntity, cache |-> c]
    ELSE LET result == s[levelId]
             parentLevel == getLevel_IgnoringMissingParent(result.Parent, c, s,
                                                           calling \cup {levelId})
             merged == IF result.HasParent /\ Len(result.Parent) > 0
                          /\ parentLevel.err = NoError
                       THEN MergeParentProperties(result, parentLevel.result)
                       ELSE result
             c1 == IF result.HasParent /\ Len(result.Parent) > 0
                   THEN parentLevel.cache ELSE c
         IN  [err |-> NoError,
              result |-> merged,
              cache |-> CacheResource(c1, LevelCacheKey(merged.Key),
                                      MarshalLevelEntry(merged))]

\* getLevel with a slip: a level whose parent does not resolve is cached
\* as it is stored before the error is returned.
RECURSIVE getLevel_CachingFailedLevel(_, _, _, _)
getLevel_CachingFailedLevel(levelId, c, s, calling) ==
    IF GetCachedResource(c, LevelCacheKey(levelId)) = NoError
    THEN [err |-> NoError,
          result |-> UnmarshalLevelEntry(c[LevelCacheKey(levelId)]),
          cache |-> c]
    ELSE IF levelId \in calling
    THEN [err |-> NoReturn, cache |-> c]
    ELSE IF levelId \notin DOMAIN s
    THEN [err |-> ErrNoSuchEntity, cache |-> c]
    ELSE LET result == s[levelId]
         IN  IF result.HasParent /\ Len(result.Parent) > 0
             THEN LET parentLevel == getLevel_CachingFailedLevel(result.Parent, c, s,
                                         calling \cup {levelId})
                  IN  IF parentLevel.err # NoError
                      THEN [err |-> parentLevel.err,
                            cache |-> CacheResource(parentLevel.cache,
                                          LevelCacheKey(result.Key),
                                          MarshalLevelEntry(result))]
                      ELSE LET merged == MergeParentProperties(result,
                                                               parentLevel.result)
                           IN  [err |-> NoError,
                                result |-> merged,
                                cache |-> CacheResource(parentLevel.cache,
                                              LevelCacheKey(merged.Key),
                                              MarshalLevelEntry(merged))]
             ELSE [err |-> NoError,
                   result |-> result,
                   cache |-> CacheResource(c, LevelCacheKey(result.Key),
                                           MarshalLevelEntry(result))]

\* getLevel: the merged level from the level cache, else from the datastore
\* merged with its parent's merged level and then cached.  `calling` holds
\* the ids of the calls of getLevel that are waiting for this one: a call
\* that reaches the datastore for an id of a waiting call repeats that
\* call with the same cache and store, and so does not return.
RECURSIVE getLevel(_, _, _, _)
getLevel(levelId, c, s, calling) ==
    IF GetCachedResource(c, LevelCacheKey(levelId)) = NoError
    THEN [err |-> NoError,
          result |-> UnmarshalLevelEntry(c[LevelCacheKey(levelId)]),
          cache |-> c]
    ELSE IF levelId \in calling
    THEN [err |-> NoReturn, cache |-> c]
    ELSE IF levelId \notin DOMAIN s
    THEN [err |-> ErrNoSuchEntity, cache |-> c]
    ELSE LET result == s[levelId]
         IN  IF result.HasParent /\ Len(result.Parent) > 0
             THEN LET parentLevel == getLevel(result.Parent, c, s,
                                              calling \cup {levelId})
                  IN  IF parentLevel.err # NoError
                      THEN [err |-> parentLevel.err, cache |-> parentLevel.cache]
                      ELSE LET merged == MergeParentProperties(result,
                                                               parentLevel.result)
                           IN  [err |-> NoError,
                                result |-> merged,
                                cache |-> CacheResource(parentLevel.cache,
                                              LevelCacheKey(merged.Key),
                                              MarshalLevelEntry(merged))]
             ELSE [err |-> NoError,
                   result |-> result,
                   cache |-> CacheResource(c, LevelCacheKey(result.Key),
                                           MarshalLevelEntry(result))]

\* invalidateLevelCaches with a slip: the response entry is left in place.
invalidateLevelCaches_LevelEntryOnly(c, levelId) ==
    InvalidateCacheEntry(c, LevelCacheKey(levelId))

\* invalidateLevelCaches with a slip: the level entry is left in place.
invalidateLevelCaches_ResponseEntryOnly(c, levelId) ==
    InvalidateCacheEntry(c, ResponseCacheKey(buildResourcePath(levelId)))

\* invalidateLevelCaches: the response entry of the level's path, then its
\* level entry.
invalidateLevelCaches(c, levelId) ==
    InvalidateCacheEntry(
        InvalidateCacheEntry(c, ResponseCacheKey(buildResourcePath(levelId))),
        LevelCacheKey(levelId))

\* The loop of invalidateChildLevelCaches with a slip: it stops after the
\* first child.
invalidateEach_FirstOnly(c, keys) ==
    IF keys = <<>> THEN c ELSE invalidateLevelCaches(c, Head(keys))

\* invalidateChildLevelCaches: invalidateLevelCaches of every level whose
\* Parent property is parentId.
RECURSIVE invalidateEach(_, _)
invalidateEach(c, keys) ==
    IF keys = <<>> THEN c
    ELSE invalidateEach(invalidateLevelCaches(c, Head(keys)), Tail(keys))

\* invalidateChildLevelCaches with a slip: the children are not looked up.
invalidateChildLevelCaches_Skipped(c, s, parentId) == c

invalidateChildLevelCaches(c, s, parentId) ==
    invalidateEach(c, QueryChildKeys(s, parentId))

\* invalidateQueryCaches with a slip: the listing entry is left in place.
invalidateQueryCaches_Skipped(c) == c

invalidateQueryCaches(c) ==
    InvalidateCacheEntry(c, ResponseCacheKey(queryAllKey))

----------------------------------------------------------------------------
(* Route handlers: the response and the cache and store they leave *)

\* handleGet with a slip: the 404 response is not cached.
handleGet_NotCachingNotFound(levelId, c, s) ==
    LET path == "/levels/" \o levelId
    IN  IF GetCachedResource(c, ResponseCacheKey(path)) = NoError
        THEN LET cachedResponse == UnmarshalResponseEntry(c[ResponseCacheKey(path)])
             IN  [resp |-> ContextJSON(cachedResponse.Code, cachedResponse.Response),
                  cache |-> c, store |-> s]
        ELSE LET got == getLevel(levelId, c, s, {})
             IN  IF got.err = ErrNoSuchEntity
                 THEN [resp |-> ContextString(StatusNotFound, "Level does not exist"),
                       cache |-> got.cache, store |-> s]
                 ELSE IF got.err # NoError
                 THEN [resp |-> NoResponse, cache |-> got.cache, store |-> s]
                 ELSE LET document == MarshalJsonLevel(ToJsonLevel(got.result))
                      IN  [resp |-> ContextJSON(StatusOK, document),
                           cache |-> CacheResource(got.cache, ResponseCacheKey(path),
                                        MarshalResponseEntry(path, StatusOK, document)),
                           store |-> s]

handleGet(levelId, c, s) ==
    LET path == "/levels/" \o levelId
    IN  IF GetCachedResource(c, ResponseCacheKey(path)) = NoError
        THEN LET cachedResponse == UnmarshalResponseEntry(c[ResponseCacheKey(path)])
             IN  [resp |-> ContextJSON(cachedResponse.Code, cachedResponse.Response),
                  cache |-> c, store |-> s]
        ELSE LET got == getLevel(levelId, c, s, {})
             IN  IF got.err = ErrNoSuchEntity
                 THEN [resp |-> ContextString(StatusNotFound, "Level does not exist"),
                       cache |-> CacheResource(got.cache, ResponseCacheKey(path),
                                    MarshalResponseEntry(path, StatusNotFound,
                                        JsonString("Level does not exist"))),
                       store |-> s]
                 ELSE IF got.err = NoReturn
                 THEN [resp |-> NoResponse, cache |-> got.cache, store |-> s]
                 ELSE IF got.err # NoError
                 THEN [resp |-> ContextString(StatusInternalServerError,
                                              "Could not retrieve the level"),
                       cache |-> got.cache, store |-> s]
                 ELSE LET document == MarshalJsonLevel(ToJsonLevel(got.result))
                      IN  [resp |-> ContextJSON(StatusOK, document),
                           cache |-> CacheResource(got.cache, ResponseCacheKey(path),
                                        MarshalResponseEntry(path, StatusOK, document)),
                           store |-> s]

\* handlePost with a slip: the body is merged into the stored level, so that
\* a property the body leaves out keeps its stored value.
handlePost_Merging(levelId, level, c, s) ==
    LET posted == ToDatastoreLevel([level EXCEPT !.Key = Ptr(levelId)])
        dsLevel == IF levelId \in DOMAIN s
                   THEN MergeParentProperties(posted, s[levelId]) ELSE posted
        s1 == DatastorePut(s, dsLevel.Key, dsLevel)
        c1 == invalidateLevelCaches(c, dsLevel.Key)
        c2 == invalidateChildLevelCaches(c1, s1, dsLevel.Key)
        c3 == invalidateQueryCaches(c2)
    IN  [resp |-> ContextJSON(StatusOK, JsonNull), cache |-> c3, store |-> s1]

\* handlePost with a slip: the key of the body is kept when the body has one.
handlePost_KeepingBodyKey(levelId, level, c, s) ==
    LET dsLevel == ToDatastoreLevel(IF level.Key # Nil THEN level
                                    ELSE [level EXCEPT !.Key = Ptr(levelId)])
        s1 == DatastorePut(s, levelId, dsLevel)
        c1 == invalidateLevelCaches(c, levelId)
        c2 == invalidateChildLevelCaches(c1, s1, levelId)
        c3 == invalidateQueryCaches(c2)
    IN  [resp |-> ContextJSON(StatusOK, JsonNull), cache |-> c3, store |-> s1]

\* handlePost, for a body that unmarshals to `level`; handlePut is handlePost.
handlePost(levelId, level, c, s) ==
    LET dsLevel == ToDatastoreLevel([level EXCEPT !.Key = Ptr(levelId)])
        s1 == DatastorePut(s, dsLevel.Key, dsLevel)
        c1 == invalidateLevelCaches(c, dsLevel.Key)
        c2 == invalidateChildLevelCaches(c1, s1, dsLevel.Key)
        c3 == invalidateQueryCaches(c2)
    IN  [resp |-> ContextJSON(StatusOK, JsonNull), cache |-> c3, store |-> s1]

\* handleDelete with a slip: the children of the level are deleted with it.
handleDelete_Cascading(levelId, c, s) ==
    LET s1 == [k \in DOMAIN s \ ({levelId} \cup {d \in DOMAIN s : s[d].Parent = levelId})
                 |-> s[k]]
        c1 == invalidateLevelCaches(c, levelId)
        c2 == invalidateChildLevelCaches(c1, s, levelId)
        c3 == invalidateQueryCaches(c2)
    IN  [resp |-> ContextJSON(StatusOK, JsonNull), cache |-> c3, store |-> s1]

\* handleDelete with a slip: a DELETE of an id that is not stored answers 404.
handleDelete_NotFoundWhenMissing(levelId, c, s) ==
    IF levelId \notin DOMAIN s
    THEN [resp |-> ContextString(StatusNotFound, "Level does not exist"),
          cache |-> c, store |-> s]
    ELSE LET s1 == DatastoreDelete(s, levelId)
             c1 == invalidateLevelCaches(c, levelId)
             c2 == invalidateChildLevelCaches(c1, s1, levelId)
             c3 == invalidateQueryCaches(c2)
         IN  [resp |-> ContextJSON(StatusOK, JsonNull), cache |-> c3, store |-> s1]

handleDelete(levelId, c, s) ==
    LET s1 == DatastoreDelete(s, levelId)
        c1 == invalidateLevelCaches(c, levelId)
        c2 == invalidateChildLevelCaches(c1, s1, levelId)
        c3 == invalidateQueryCaches(c2)
    IN  [resp |-> ContextJSON(StatusOK, JsonNull), cache |-> c3, store |-> s1]

\* The loop of handleQuery over the keys: the levels that resolve, in order.
\* The iterations over a list of keys are those over its first half followed
\* by those over its second half.
RECURSIVE loadEach(_, _, _, _)
loadEach(keys, c, s, dsResults) ==
    IF keys = <<>> THEN [noReturn |-> FALSE, cache |-> c, dsResults |-> dsResults]
    ELSE IF Len(keys) = 1
    THEN LET resolvedLevel == getLevel(Head(keys), c, s, {})
         IN  [noReturn |-> resolvedLevel.err = NoReturn,
              cache |-> resolvedLevel.cache,
              dsResults |-> IF resolvedLevel.err = NoError
                            THEN Append(dsResults, resolvedLevel.result)
                            ELSE dsResults]
    ELSE LET half == Len(keys) \div 2
             first == loadEach(SubSeq(keys, 1, half), c, s, dsResults)
         IN  IF first.noReturn THEN first
             ELSE loadEach(SubSeq(keys, half + 1, Len(keys)), first.cache, s,
                           first.dsResults)

\* handleQuery with a slip: the listing holds the stored records, not the
\* merged levels.
handleQuery_RawRecords(c, s) ==
    IF GetCachedResource(c, ResponseCacheKey(queryAllKey)) = NoError
    THEN LET responseEntry == UnmarshalResponseEntry(c[ResponseCacheKey(queryAllKey)])
         IN  [resp |-> ContextJSON(responseEntry.Code, responseEntry.Response),
              cache |-> c, store |-> s]
    ELSE LET keys == QueryAllKeys(s)
             document == MarshalJsonLevels([i \in 1..Len(keys) |-> ToJsonLevel(s[keys[i]])])
         IN  [resp |-> ContextJSON(StatusOK, document),
              cache |-> CacheResource(c, ResponseCacheKey(queryAllKey),
                           MarshalResponseEntry(queryAllKey, StatusOK, document)),
              store |-> s]

\* handleQuery with a slip: a level that does not resolve fails the listing.
handleQuery_FailingWhole(c, s) ==
    IF GetCachedResource(c, ResponseCacheKey(queryAllKey)) = NoError
    THEN LET responseEntry == UnmarshalResponseEntry(c[ResponseCacheKey(queryAllKey)])
         IN  [resp |-> ContextJSON(responseEntry.Code, responseEntry.Response),
              cache |-> c, store |-> s]
    ELSE LET loaded == loadEach(QueryAllKeys(s), c, s, <<>>)
             response == [i \in 1..Len(loaded.dsResults) |->
                             ToJsonLevel(loaded.dsResults[i])]
             document == MarshalJsonLevels(response)
         IN  IF Len(loaded.dsResults) < Len(QueryAllKeys(s))
             THEN [resp |-> ContextString(StatusInternalServerError,
                                          "Could not retrieve the level"),
                   cache |-> loaded.cache, store |-> s]
             ELSE [resp |-> ContextJSON(StatusOK, document),
                   cache |-> CacheResource(loaded.cache, ResponseCacheKey(queryAllKey),
                                MarshalResponseEntry(queryAllKey, StatusOK, document)),
                   store |-> s]

handleQuery(c, s) ==
    IF GetCachedResource(c, ResponseCacheKey(queryAllKey)) = NoError
    THEN LET responseEntry == UnmarshalResponseEntry(c[ResponseCacheKey(queryAllKey)])
         IN  [resp |-> ContextJSON(responseEntry.Code, responseEntry.Response),
              cache |-> c, store |-> s]
    ELSE LET loaded == loadEach(QueryAllKeys(s), c, s, <<>>)
             response == [i \in 1..Len(loaded.dsResults) |->
                             ToJsonLevel(loaded.dsResults[i])]
             document == MarshalJsonLevels(response)
         IN  IF loaded.noReturn
             THEN [resp |-> NoResponse, cache |-> loaded.cache, store |-> s]
             ELSE [resp |-> ContextJSON(StatusOK, document),
                   cache |-> CacheResource(loaded.cache, ResponseCacheKey(queryAllKey),
                                MarshalResponseEntry(queryAllKey, StatusOK, document)),
                   store |-> s]

----------------------------------------------------------------------------
(* The requests of a run *)

\* A level with no property set.
EmptyLevel == JsonLevel(Nil, Nil, Nil, Nil, Nil, Nil, Nil, Nil, Nil, Nil, Nil, Nil)

\* A level with every property set to a value derived from v, as the test
\* levels; the key of the body is not the id of the URL.
FullLevel(v) ==
    JsonLevel(Ptr("key of the body"), Nil, Ptr(LevelNames[v]), Ptr(v), Ptr(v),
              Ptr(v), Ptr(v), Ptr(v), Ptr(v), Ptr(v), Ptr(v),
              Ptr([u \in {UnitType} |-> v]))

\* A level that sets every other property, each to the zero value of its type.
ZeroLevel ==
    JsonLevel(Nil, Nil, Ptr(""), Ptr(0), Nil, Ptr(0), Nil, Ptr(0), Nil, Ptr(0),
              Nil, Ptr([u \in {} |-> 0]))

\* The bodies of the PUT and POST requests for an id: one of the levels
\* above, with no parent or with a parent that comes later in the key order.
Parents(levelId) ==
    {Nil} \cup {Ptr(IdSeq[i]) : i \in (IndexOf(levelId) + 1)..Len(IdSeq)}

Bodies(levelId) ==
    {[level EXCEPT !.Parent = parent] :
        level \in {EmptyLevel, ZeroLevel} \cup {FullLevel(v) : v \in 1..MaxVal},
        parent \in Parents(levelId)}

\* The record of a request: its verb and id and the response.  For a GET or
\* a listing, `hit` tells that the response cache answered.  For a PUT or
\* POST, `created` tells that no level was stored under the id, and `changed`
\* holds the properties whose flag or value the request changed in the stored
\* level.  For a PUT, POST or DELETE, `cached` holds the ids, among the id of
\* the request and the stored levels that name it as parent, whose level
\* entry and response entry were both cached when the request arrived.
Changed(before, after) ==
    {f \in Fields : before[f] # after[f] \/ before[Has(f)] # after[Has(f)]}

CachedBefore(levelId) ==
    {id \in {levelId} \cup {d \in DOMAIN store : store[d].Parent = levelId} :
        {ResponseCacheKey(buildResourcePath(id)), LevelCacheKey(id)}
            \subseteq DOMAIN cache}

Request(op, levelId, resp, done) ==
    [op |-> op, id |-> levelId, resp |-> resp,
     hit |-> /\ op \in {"GET", "LIST"}
             /\ ResponseCacheKey(IF op = "GET" THEN buildResourcePath(levelId)
                                 ELSE queryAllKey) \in DOMAIN cache,
     created |-> op = "PUT" /\ levelId \notin DOMAIN store,
     changed |-> IF op = "PUT" /\ levelId \in DOMAIN store
                 THEN Changed(store[levelId], done.store[levelId]) ELSE {},
     cached |-> IF op \in {"PUT", "DELETE"} THEN CachedBefore(levelId) ELSE {},
     listed |-> op = "DELETE" /\ ResponseCacheKey(queryAllKey) \in DOMAIN cache,
     missing |-> op = "DELETE" /\ levelId \notin DOMAIN store]

\* A request that runs statement by statement has a slot: one for a request
\* that reads and one for a request that writes.  The requests of Spec and
\* SpecLimit run from start to end in one step and leave the slots empty.
Slots == {"reader", "writer"}

NoCall ==
    [op |-> "", id |-> "", body |-> Nil, pc |-> "idle", stack |-> <<>>,
     keys |-> <<>>, dsResults |-> <<>>, todo |-> <<>>, pending |-> <<>>,
     resp |-> NoResponse, log |-> <<>>,
     began |-> [store |-> <<>>, returned |-> {}]]

Init ==
    /\ store = <<>>
    /\ cache = <<>>
    /\ upserted = [id \in Ids |-> Nil]
    /\ calls = [slot \in Slots |-> NoCall]
    /\ last = [op |-> "", id |-> "", resp |-> NoResponse, hit |-> FALSE,
               created |-> FALSE, changed |-> {}, cached |-> {},
               listed |-> FALSE, missing |-> FALSE]

HandleGet(levelId) ==
    LET done == handleGet(levelId, cache, store)
    IN  /\ cache' = done.cache
        /\ last' = Request("GET", levelId, done.resp, done)
        /\ UNCHANGED <<store, upserted, calls>>

HandlePost(levelId, level) ==
    LET done == handlePost(levelId, level, cache, store)
    IN  /\ store' = done.store
        /\ cache' = done.cache
        /\ upserted' = [upserted EXCEPT ![levelId] = Ptr(level)]
        /\ last' = Request("PUT", levelId, done.resp, done)
        /\ UNCHANGED calls

HandleDelete(levelId) ==
    LET done == handleDelete(levelId, cache, store)
    IN  /\ store' = done.store
        /\ cache' = done.cache
        /\ upserted' = [upserted EXCEPT ![levelId] = Nil]
        /\ last' = Request("DELETE", levelId, done.resp, done)
        /\ UNCHANGED calls

HandleQuery ==
    LET done == handleQuery(cache, store)
    IN  /\ cache' = done.cache
        /\ last' = Request("LIST", "", done.resp, done)
        /\ UNCHANGED <<store, upserted, calls>>

Next ==
    \/ \E levelId \in Ids : HandleGet(levelId)
    \/ \E levelId \in Ids : \E level \in Bodies(levelId) : HandlePost(levelId, level)
    \/ \E levelId \in Ids : HandleDelete(levelId)
    \/ HandleQuery

Spec == Init /\ [][Next]_vars

----------------------------------------------------------------------------
(* The listing of a large store *)

\* The store that PUTs of the first n ids of BulkIdSeq leave, each with the
\* body of the test level; with `dangling`, the first of them names a parent
\* that is not stored.
BulkLevel(id, dangling) ==
    [FullLevel(1) EXCEPT !.Key = Ptr(id),
                         !.Parent = IF dangling /\ id = BulkIdSeq[1]
                                    THEN Ptr(IdSeq[1]) ELSE Nil]

BulkStore(n, dangling) ==
    [id \in {BulkIdSeq[i] : i \in 1..n} |-> ToDatastoreLevel(BulkLevel(id, dangling))]

InitLimit ==
    /\ \E n \in 0..MaxStored : \E dangling \in BOOLEAN :
          store = BulkStore(n, dangling)
    /\ cache = <<>>
    /\ upserted = [id \in Ids |-> Nil]
    /\ calls = [slot \in Slots |-> NoCall]
    /\ last = [op |-> "", id |-> "", resp |-> NoResponse, hit |-> FALSE,
               created |-> FALSE, changed |-> {}, cached |-> {},
               listed |-> FALSE, missing |-> FALSE]

\* The requests that write are those around the limit of the keys query: a
\* PUT of the next id of BulkIdSeq.
BulkPost ==
    /\ Cardinality(DOMAIN store) < MaxStored
    /\ Cardinality(DOMAIN store) >= QueryLimit - 1
    /\ LET levelId == BulkIdSeq[Cardinality(DOMAIN store) + 1]
           done == handlePost(levelId, FullLevel(1), cache, store)
       IN  /\ store' = done.store
           /\ cache' = done.cache
           /\ last' = Request("PUT", levelId, done.resp, done)
           /\ UNCHANGED <<upserted, calls>>

\* A DELETE of the last stored id of BulkIdSeq.
BulkDelete ==
    /\ Cardinality(DOMAIN store) >= QueryLimit - 1
    /\ LET levelId == BulkIdSeq[Cardinality(DOMAIN store)]
           done == handleDelete(levelId, cache, store)
       IN  /\ store' = done.store
           /\ cache' = done.cache
           /\ last' = Request("DELETE", levelId, done.resp, done)
           /\ UNCHANGED <<upserted, calls>>

NextLimit ==
    \/ HandleQuery
    \/ BulkPost
    \/ BulkDelete

SpecLimit == InitLimit /\ [][NextLimit]_vars

----------------------------------------------------------------------------
(* The handlers statement by statement *)

\* A request in flight is a call: its verb, id and body, the statement it
\* has reached (pc), the calls of getLevel that have not returned (stack,
\* the innermost last), the keys and results of the loop of handleQuery, the
\* statements left of a handler that writes (todo), the response entry it is
\* about to write (pending), its response, and the log of the calls it made
\* to memcache, to the datastore and to the response writer, each with its
\* outcome; as history, the store at its arrival and the slots whose request
\* had returned by then (began).  A step of a call is one such call; what the handler does
\* between two of them is local and belongs to the step before.

\* An error of the datastore other than ErrNoSuchEntity, and an error of
\* memcache (or of json.Unmarshal of an entry) other than a miss.
ErrDatastore == "datastore: internal error"

ErrCacheFailure == "memcache: server error"

\* The recursion of getLevel has no bound; the model follows it to this
\* depth.
MaxDepth == 6

Frame(levelId) == [id |-> levelId, stage |-> "memcache.Get", result |-> DatastoreLevel]

NewCall(op, levelId, body) ==
    [NoCall EXCEPT !.op = op, !.id = levelId, !.body = body,
                   !.pc = IF op \in {"GET", "LIST"} THEN "responseCacheGet"
                          ELSE "datastoreWrite",
                   !.began = [store |-> store,
                              returned |-> {slot \in Slots :
                                              calls[slot].pc = "done"}]]

Logged(call, name, arg, outcome) ==
    [call EXCEPT !.log = Append(@, <<name, arg, outcome>>)]

Outcome(err) == IF err = NoError THEN "ok" ELSE err

Top(call) == call.stack[Len(call.stack)]

SetTop(call, frame) == [call EXCEPT !.stack[Len(call.stack)] = frame]

\* The handler answers without writing a response entry.
Responded(call, resp) ==
    [Logged(call, "respond", resp.code, "ok") EXCEPT !.pc = "done", !.resp = resp]

\* The handler goes on to cache the response under the key and then to
\* answer with it.
Responding(call, key, data, resp) ==
    [call EXCEPT !.pc = "responseCacheSet",
                 !.pending = [key |-> key, data |-> data, resp |-> resp]]

\* handleGet after getLevel with a slip: every error is a missing level.
handleGetAfterGetLevel_AllErrorsNotFound(call, result, err) ==
    LET path == "/levels/" \o call.id
    IN  IF err # NoError
        THEN Responding(call, ResponseCacheKey(path),
                 MarshalResponseEntry(path, StatusNotFound,
                                      JsonString("Level does not exist")),
                 ContextString(StatusNotFound, "Level does not exist"))
        ELSE LET document == MarshalJsonLevel(ToJsonLevel(result))
             IN  Responding(call, ResponseCacheKey(path),
                     MarshalResponseEntry(path, StatusOK, document),
                     ContextJSON(StatusOK, document))

\* handleGet from the return of getLevel on.
handleGetAfterGetLevel(call, result, err) ==
    LET path == "/levels/" \o call.id
    IN  IF err = ErrNoSuchEntity
        THEN Responding(call, ResponseCacheKey(path),
                 MarshalResponseEntry(path, StatusNotFound,
                                      JsonString("Level does not exist")),
                 ContextString(StatusNotFound, "Level does not exist"))
        ELSE IF err # NoError
        THEN Responded(call, ContextString(StatusInternalServerError,
                                           "Could not retrieve the level"))
        ELSE LET document == MarshalJsonLevel(ToJsonLevel(result))
             IN  Responding(call, ResponseCacheKey(path),
                     MarshalResponseEntry(path, StatusOK, document),
                     ContextJSON(StatusOK, document))

\* The loop of handleQuery at the head of an iteration: the call of getLevel
\* for the next key, or after the last key the response.
handleQueryLoop(call) ==
    IF call.keys = <<>>
    THEN LET response == [i \in 1..Len(call.dsResults) |->
                             ToJsonLevel(call.dsResults[i])]
             document == MarshalJsonLevels(response)
         IN  Responding(call, ResponseCacheKey(queryAllKey),
                 MarshalResponseEntry(queryAllKey, StatusOK, document),
                 ContextJSON(StatusOK, document))
    ELSE [call EXCEPT !.pc = "getLevel", !.stack = <<Frame(Head(call.keys))>>,
                      !.keys = Tail(call.keys)]

\* The body of the loop from the return of getLevel on.
handleQueryAfterGetLevel(call, result, err) ==
    handleQueryLoop(IF err = NoError
                    THEN [call EXCEPT !.dsResults = Append(@, result)]
                    ELSE call)

\* The return of getLevel with a slip: the result of the call for the parent
\* is not merged.
RECURSIVE ReturnFromGetLevel_NotMerging(_, _, _)
ReturnFromGetLevel_NotMerging(call, result, err) ==
    LET callers == SubSeq(call.stack, 1, Len(call.stack) - 1)
        returned == [call EXCEPT !.stack = callers]
    IN  IF callers = <<>>
        THEN IF call.op = "GET"
             THEN handleGetAfterGetLevel([returned EXCEPT !.pc = "handler"], result, err)
             ELSE handleQueryAfterGetLevel([returned EXCEPT !.pc = "handler"], result, err)
        ELSE IF err # NoError
        THEN ReturnFromGetLevel_NotMerging(returned, result, err)
        ELSE SetTop(returned, [Top(returned) EXCEPT !.stage = "memcache.Set"])

\* The return of the innermost call of getLevel with (result, err): to the
\* handler, or to the call of getLevel that waits for its parent, which
\* returns the error in turn or merges the result and goes on to cache it.
RECURSIVE ReturnFromGetLevel(_, _, _)
ReturnFromGetLevel(call, result, err) ==
    LET callers == SubSeq(call.stack, 1, Len(call.stack) - 1)
        returned == [call EXCEPT !.stack = callers]
    IN  IF callers = <<>>
        THEN IF call.op = "GET"
             THEN handleGetAfterGetLevel([returned EXCEPT !.pc = "handler"], result, err)
             ELSE handleQueryAfterGetLevel([returned EXCEPT !.pc = "handler"], result, err)
        ELSE IF err # NoError
        THEN ReturnFromGetLevel(returned, result, err)
        ELSE SetTop(returned,
                    [Top(returned) EXCEPT
                        !.result = MergeParentProperties(@, result),
                        !.stage = "memcache.Set"])

\* invalidateLevelCaches as the list of its statements.
invalidateLevelCachesSteps(levelId) ==
    << <<"memcache.Delete", ResponseCacheKey(buildResourcePath(levelId))>>,
       <<"memcache.Delete", LevelCacheKey(levelId)>> >>

\* The statements of handlePost and handleDelete after the write with a
\* slip: the response comes before the eviction of the listing entry.
InvalidationSteps_RespondingEarly(levelId) ==
    invalidateLevelCachesSteps(levelId)
    \o << <<"query.GetAll", levelId>>,
          <<"context.JSON", StatusOK>>,
          <<"memcache.Delete", ResponseCacheKey(queryAllKey)>> >>

\* The statements of handlePost and handleDelete after the write to the
\* datastore: invalidateLevelCaches, invalidateChildLevelCaches,
\* invalidateQueryCaches and the response.
InvalidationSteps(levelId) ==
    invalidateLevelCachesSteps(levelId)
    \o << <<"query.GetAll", levelId>>,
          <<"memcache.Delete", ResponseCacheKey(queryAllKey)>>,
          <<"context.JSON", StatusOK>> >>

\* The loop of invalidateChildLevelCaches with a slip: after the entries of
\* a child it goes on to the children of that child.
RECURSIVE invalidateEachSteps_Descending(_)
invalidateEachSteps_Descending(keys) ==
    IF keys = <<>> THEN <<>>
    ELSE invalidateLevelCachesSteps(Head(keys))
         \o << <<"query.GetAll", Head(keys)>> >>
         \o invalidateEachSteps_Descending(Tail(keys))

\* The loop of invalidateChildLevelCaches as the list of its statements.
RECURSIVE invalidateEachSteps(_)
invalidateEachSteps(keys) ==
    IF keys = <<>> THEN <<>>
    ELSE invalidateLevelCachesSteps(Head(keys)) \o invalidateEachSteps(Tail(keys))

\* invalidateChildLevelCaches after its query with a slip: an error of the
\* query fails the request.
AfterChildrenQuery_Aborting(rest, keys, err) ==
    IF err # NoError THEN << <<"context.String", StatusInternalServerError>> >>
    ELSE invalidateEachSteps(keys) \o rest

\* invalidateChildLevelCaches from the return of its query on: the
\* statements left of the handler, `rest` being those after the helper.
AfterChildrenQuery(rest, keys, err) ==
    IF err # NoError THEN rest ELSE invalidateEachSteps(keys) \o rest

\* The steps.  `fail` tells that the call made by the step returns an error.

\* cache.GetCachedResource of handleGet and handleQuery.
ResponseCacheGet(slot, fail) ==
    LET call == calls[slot]
        path == IF call.op = "GET" THEN "/levels/" \o call.id ELSE queryAllKey
        err == IF fail THEN ErrCacheFailure
               ELSE GetCachedResource(cache, ResponseCacheKey(path))
        logged == Logged(call, "memcache.Get", ResponseCacheKey(path), Outcome(err))
    IN  /\ call.pc = "responseCacheGet"
        /\ calls' = [calls EXCEPT ![slot] =
              IF err = NoError
              THEN LET cachedResponse ==
                           UnmarshalResponseEntry(cache[ResponseCacheKey(path)])
                   IN  Responded(logged, ContextJSON(cachedResponse.Code,
                                                     cachedResponse.Response))
              ELSE IF call.op = "GET"
              THEN [logged EXCEPT !.pc = "getLevel", !.stack = <<Frame(call.id)>>]
              ELSE [logged EXCEPT !.pc = "keysQuery"]]
        /\ UNCHANGED <<store, cache, upserted, last>>

\* cache.GetCachedResource of getLevel.
LevelCacheGet(slot, fail) ==
    LET call == calls[slot]
    IN  /\ call.pc = "getLevel"
        /\ Top(call).stage = "memcache.Get"
        /\ LET key == LevelCacheKey(Top(call).id)
               err == IF fail THEN ErrCacheFailure ELSE GetCachedResource(cache, key)
               logged == Logged(call, "memcache.Get", key, Outcome(err))
           IN  calls' = [calls EXCEPT ![slot] =
                  IF err = NoError
                  THEN ReturnFromGetLevel(logged, UnmarshalLevelEntry(cache[key]),
                                          NoError)
                  ELSE SetTop(logged, [Top(call) EXCEPT !.stage = "datastore.Get"])]
        /\ UNCHANGED <<store, cache, upserted, last>>

\* datastore.Get of getLevel with a slip: the parent is resolved only when
\* the level leaves a property unset.
DatastoreGet_ParentOnlyWhenUnset(slot, fail) ==
    LET call == calls[slot]
    IN  /\ call.pc = "getLevel"
        /\ Top(call).stage = "datastore.Get"
        /\ Len(call.stack) < MaxDepth
        /\ LET levelId == Top(call).id
               err == IF fail THEN ErrDatastore
                      ELSE IF levelId \in DOMAIN store THEN NoError
                      ELSE ErrNoSuchEntity
               logged == Logged(call, "datastore.Get", levelId, Outcome(err))
           IN  calls' = [calls EXCEPT ![slot] =
                  IF err # NoError
                  THEN ReturnFromGetLevel(logged, DatastoreLevel, err)
                  ELSE LET result == store[levelId]
                       IN  IF /\ result.HasParent /\ Len(result.Parent) > 0
                              /\ \E f \in Fields : ~result[Has(f)]
                           THEN [logged EXCEPT !.stack =
                                    Append(SetTop(call,
                                               [Top(call) EXCEPT
                                                   !.result = result,
                                                   !.stage = "getLevel"]).stack,
                                           Frame(result.Parent))]
                           ELSE SetTop(logged, [Top(call) EXCEPT
                                                   !.result = result,
                                                   !.stage = "memcache.Set"])]
        /\ UNCHANGED <<store, cache, upserted, last>>

\* datastore.Get of getLevel with a slip: a parent that is waiting for this
\* call is not resolved again, and the level is reported missing.
DatastoreGet_DetectingCycles(slot, fail) ==
    LET call == calls[slot]
    IN  /\ call.pc = "getLevel"
        /\ Top(call).stage = "datastore.Get"
        /\ Len(call.stack) < MaxDepth
        /\ LET levelId == Top(call).id
               err == IF fail THEN ErrDatastore
                      ELSE IF levelId \in DOMAIN store THEN NoError
                      ELSE ErrNoSuchEntity
               logged == Logged(call, "datastore.Get", levelId, Outcome(err))
           IN  calls' = [calls EXCEPT ![slot] =
                  IF err # NoError
                  THEN ReturnFromGetLevel(logged, DatastoreLevel, err)
                  ELSE LET result == store[levelId]
                       IN  IF /\ result.HasParent /\ Len(result.Parent) > 0
                              /\ \E i \in 1..Len(call.stack) :
                                    call.stack[i].id = result.Parent
                           THEN ReturnFromGetLevel(logged, DatastoreLevel,
                                                   ErrNoSuchEntity)
                           ELSE IF result.HasParent /\ Len(result.Parent) > 0
                           THEN [logged EXCEPT !.stack =
                                    Append(SetTop(call,
                                               [Top(call) EXCEPT
                                                   !.result = result,
                                                   !.stage = "getLevel"]).stack,
                                           Frame(result.Parent))]
                           ELSE SetTop(logged, [Top(call) EXCEPT
                                                   !.result = result,
                                                   !.stage = "memcache.Set"])]
        /\ UNCHANGED <<store, cache, upserted, last>>

\* datastore.Get of getLevel, and the call of getLevel for the parent.
DatastoreGet(slot, fail) ==
    LET call == calls[slot]
    IN  /\ call.pc = "getLevel"
        /\ Top(call).stage = "datastore.Get"
        /\ Len(call.stack) < MaxDepth
        /\ LET levelId == Top(call).id
               err == IF fail THEN ErrDatastore
                      ELSE IF levelId \in DOMAIN store THEN NoError
                      ELSE ErrNoSuchEntity
               logged == Logged(call, "datastore.Get", levelId, Outcome(err))
           IN  calls' = [calls EXCEPT ![slot] =
                  IF err # NoError
                  THEN ReturnFromGetLevel(logged, DatastoreLevel, err)
                  ELSE LET result == store[levelId]
                       IN  IF result.HasParent /\ Len(result.Parent) > 0
                           THEN [logged EXCEPT !.stack =
                                    Append(SetTop(call,
                                               [Top(call) EXCEPT
                                                   !.result = result,
                                                   !.stage = "getLevel"]).stack,
                                           Frame(result.Parent))]
                           ELSE SetTop(logged, [Top(call) EXCEPT
                                                   !.result = result,
                                                   !.stage = "memcache.Set"])]
        /\ UNCHANGED <<store, cache, upserted, last>>

\* cache.CacheResource of getLevel with a slip: the stored record is cached,
\* not the merged level.
LevelCacheSet_StoredRecord(slot, fail) ==
    LET call == calls[slot]
    IN  /\ call.pc = "getLevel"
        /\ Top(call).stage = "memcache.Set"
        /\ LET result == Top(call).result
               key == LevelCacheKey(result.Key)
               logged == Logged(call, "memcache.Set", key,
                                IF fail THEN ErrCacheFailure ELSE "ok")
           IN  /\ cache' = IF fail THEN cache
                           ELSE CacheResource(cache, key,
                                    MarshalLevelEntry(store[result.Key]))
               /\ calls' = [calls EXCEPT ![slot] =
                               ReturnFromGetLevel(logged, result, NoError)]
        /\ UNCHANGED <<store, upserted, last>>

\* cache.CacheResource of getLevel, and its return.
LevelCacheSet(slot, fail) ==
    LET call == calls[slot]
    IN  /\ call.pc = "getLevel"
        /\ Top(call).stage = "memcache.Set"
        /\ LET result == Top(call).result
               key == LevelCacheKey(result.Key)
               logged == Logged(call, "memcache.Set", key,
                                IF fail THEN ErrCacheFailure ELSE "ok")
           IN  /\ cache' = IF fail THEN cache
                           ELSE CacheResource(cache, key, MarshalLevelEntry(result))
               /\ calls' = [calls EXCEPT ![slot] =
                               ReturnFromGetLevel(logged, result, NoError)]
        /\ UNCHANGED <<store, upserted, last>>

\* The keys query of handleQuery; its error is dropped.  A query that fails
\* returns the keys it had collected before the error: none, some or all.
KeysQuery(slot, fail) ==
    LET call == calls[slot]
        logged == Logged(call, "query.GetAll", "",
                         IF fail THEN ErrDatastore ELSE "ok")
    IN  /\ call.pc = "keysQuery"
        /\ \E n \in 0..Len(QueryAllKeys(store)) :
              /\ ~fail => n = Len(QueryAllKeys(store))
              /\ calls' = [calls EXCEPT ![slot] =
                    handleQueryLoop([logged EXCEPT
                        !.keys = SubSeq(QueryAllKeys(store), 1, n)])]
        /\ UNCHANGED <<store, cache, upserted, last>>

\* cache.CacheResource of handleGet and handleQuery, and the response.
ResponseCacheSet(slot, fail) ==
    LET call == calls[slot]
    IN  /\ call.pc = "responseCacheSet"
        /\ cache' = IF fail THEN cache
                    ELSE CacheResource(cache, call.pending.key, call.pending.data)
        /\ calls' = [calls EXCEPT ![slot] =
              Responded([Logged(call, "memcache.Set", call.pending.key,
                                IF fail THEN ErrCacheFailure ELSE "ok")
                            EXCEPT !.pending = <<>>],
                        call.pending.resp)]
        /\ UNCHANGED <<store, upserted, last>>

\* The write to the datastore with a slip: its error is dropped and the
\* handler goes on to the invalidation.
DatastoreWrite_IgnoringError(slot, fail) ==
    LET call == calls[slot]
        logged == Logged(call, IF call.op = "PUT" THEN "datastore.Put"
                               ELSE "datastore.Delete",
                         call.id, IF fail THEN ErrDatastore ELSE "ok")
    IN  /\ call.pc = "datastoreWrite"
        /\ store' = IF fail THEN store
                    ELSE IF call.op = "PUT"
                    THEN DatastorePut(store, call.id,
                             ToDatastoreLevel([Deref(call.body) EXCEPT
                                                  !.Key = Ptr(call.id)]))
                    ELSE DatastoreDelete(store, call.id)
        /\ calls' = [calls EXCEPT ![slot] =
                        [logged EXCEPT !.pc = "invalidate",
                                       !.todo = InvalidationSteps(call.id)]]
        /\ UNCHANGED <<cache, upserted, last>>

\* datastore.Put of handlePost and datastore.Delete of handleDelete.
DatastoreWrite(slot, fail) ==
    LET call == calls[slot]
    IN  /\ call.pc = "datastoreWrite"
        /\ IF call.op = "PUT"
           THEN LET dsLevel == ToDatastoreLevel([Deref(call.body) EXCEPT
                                                    !.Key = Ptr(call.id)])
                    logged == Logged(call, "datastore.Put", call.id,
                                     IF fail THEN ErrDatastore ELSE "ok")
                IN  /\ store' = IF fail THEN store
                                ELSE DatastorePut(store, dsLevel.Key, dsLevel)
                    /\ calls' = [calls EXCEPT ![slot] =
                          IF fail
                          THEN Responded(logged,
                                   ContextString(StatusInternalServerError,
                                                 "Failed to store the level"))
                          ELSE [logged EXCEPT !.pc = "invalidate",
                                   !.todo = InvalidationSteps(dsLevel.Key)]]
           ELSE LET logged == Logged(call, "datastore.Delete", call.id,
                                     IF fail THEN ErrDatastore ELSE "ok")
                IN  /\ store' = IF fail THEN store
                                ELSE DatastoreDelete(store, call.id)
                    /\ calls' = [calls EXCEPT ![slot] =
                          IF fail
                          THEN Responded(logged,
                                   ContextString(StatusInternalServerError,
                                                 "Failed to delete the level"))
                          ELSE [logged EXCEPT !.pc = "invalidate",
                                   !.todo = InvalidationSteps(call.id)]]
        /\ UNCHANGED <<cache, upserted, last>>

\* cache.InvalidateCacheEntry; its error is dropped.
MemcacheDelete(slot, fail) ==
    LET call == calls[slot]
    IN  /\ call.pc = "invalidate"
        /\ Head(call.todo)[1] = "memcache.Delete"
        /\ LET key == Head(call.todo)[2]
           IN  /\ cache' = IF fail THEN cache ELSE InvalidateCacheEntry(cache, key)
               /\ calls' = [calls EXCEPT ![slot] =
                     [Logged(call, "memcache.Delete", key,
                             IF fail THEN ErrCacheFailure ELSE "ok")
                         EXCEPT !.todo = Tail(call.todo)]]
        /\ UNCHANGED <<store, upserted, last>>

\* The query of invalidateChildLevelCaches.
ChildrenQuery(slot, fail) ==
    LET call == calls[slot]
    IN  /\ call.pc = "invalidate"
        /\ Head(call.todo)[1] = "query.GetAll"
        /\ LET parentId == Head(call.todo)[2]
               err == IF fail THEN ErrDatastore ELSE NoError
               keys == IF fail THEN <<>> ELSE QueryChildKeys(store, parentId)
           IN  calls' = [calls EXCEPT ![slot] =
                  [Logged(call, "query.GetAll", parentId, Outcome(err))
                      EXCEPT !.todo = AfterChildrenQuery(Tail(call.todo), keys, err)]]
        /\ UNCHANGED <<store, cache, upserted, last>>

\* The response of handlePost and handleDelete; the handler returns when no
\* statement is left.
Respond(slot) ==
    LET call == calls[slot]
    IN  /\ call.pc = "invalidate"
        /\ Head(call.todo)[1] \in {"context.JSON", "context.String"}
        /\ calls' = [calls EXCEPT ![slot] =
              [Responded(call, IF Head(call.todo)[1] = "context.JSON"
                               THEN ContextJSON(Head(call.todo)[2], JsonNull)
                               ELSE ContextString(Head(call.todo)[2], ""))
                  EXCEPT !.todo = Tail(call.todo),
                         !.pc = IF Tail(call.todo) = <<>> THEN "done"
                                ELSE "invalidate"]]
        /\ UNCHANGED <<store, cache, upserted, last>>

\* The arrival of a request.
StartCall(slot, op, levelId, body) ==
    /\ calls[slot].pc = "idle"
    /\ calls' = [calls EXCEPT ![slot] = NewCall(op, levelId, body)]
    /\ UNCHANGED <<store, cache, upserted, last>>

\* The store and cache that a sequence of requests leaves, each request
\* running from start to end.
Apply(state, request) ==
    LET done == CASE request.op = "GET" -> handleGet(request.id, state.cache, state.store)
                  [] request.op = "PUT" -> handlePost(request.id, request.body,
                                                      state.cache, state.store)
                  [] request.op = "DELETE" -> handleDelete(request.id, state.cache,
                                                           state.store)
                  [] request.op = "LIST" -> handleQuery(state.cache, state.store)
    IN  [store |-> done.store, cache |-> done.cache]

RECURSIVE Run(_, _)
Run(state, script) ==
    IF script = <<>> THEN state ELSE Run(Apply(state, Head(script)), Tail(script))

Put(levelId, level, parent) ==
    [op |-> "PUT", id |-> levelId, body |-> [level EXCEPT !.Parent = parent]]

Get(levelId) == [op |-> "GET", id |-> levelId, body |-> EmptyLevel]

\* The stores that the requests start from: a chain a -> b -> c, two
\* children a and b of c, and a chain a -> b -> c whose end is not stored.
Chain ==
    << Put("c", FullLevel(1), Nil), Put("b", EmptyLevel, Ptr("c")),
       Put("a", ZeroLevel, Ptr("b")) >>

Siblings ==
    << Put("c", FullLevel(1), Nil), Put("b", ZeroLevel, Ptr("c")),
       Put("a", EmptyLevel, Ptr("c")) >>

Dangling ==
    << Put("b", EmptyLevel, Ptr("c")), Put("a", ZeroLevel, Ptr("b")) >>

\* The reads that fill the cache, and after them an update of the end of
\* the chain or the creation of the level that was missing.
Warm ==
    << Get("a"), Get("b"), Get("c"), [op |-> "LIST", id |-> "", body |-> EmptyLevel] >>

\* A child a of b, where b sets its properties and c is not stored.
Pair ==
    << Put("b", FullLevel(1), Nil), Put("a", EmptyLevel, Ptr("b")) >>

\* A level b that sets every property and names c as parent, c stored or not.
Complete ==
    << Put("c", ZeroLevel, Nil), Put("b", FullLevel(1), Ptr("c")) >>

CompleteDangling ==
    << Put("b", FullLevel(1), Ptr("c")) >>

Scripts ==
    {<<>>, Complete, CompleteDangling, Pair, Pair \o Warm, Chain, Chain \o Warm, Siblings, Siblings \o Warm, Dangling,
     Dangling \o Warm, Chain \o Warm \o << Put("c", ZeroLevel, Nil) >>,
     Dangling \o Warm \o << Put("c", FullLevel(1), Nil) >>}

InitSteps ==
    /\ \E script \in Scripts :
          LET state == Run([store |-> <<>>, cache |-> <<>>], script)
          IN  store = state.store /\ cache = state.cache
    /\ upserted = [id \in Ids |-> Nil]
    /\ calls = [slot \in Slots |-> NoCall]
    /\ last = [op |-> "", id |-> "", resp |-> NoResponse, hit |-> FALSE,
               created |-> FALSE, changed |-> {}, cached |-> {},
               listed |-> FALSE, missing |-> FALSE]

\* One request, whose calls to memcache and to the datastore may fail.
MaxFaults == 1

Faults(call) == Cardinality({i \in 1..Len(call.log) :
                    call.log[i][3] \in {ErrDatastore, ErrCacheFailure}})

MayFail(slot) == {FALSE} \cup {fail \in {TRUE} : Faults(calls[slot]) < MaxFaults}

NoCallYet == \A slot \in Slots : calls[slot].pc = "idle"

NextFail ==
    \/ \E levelId \in Ids :
          NoCallYet /\ StartCall("reader", "GET", levelId, Nil)
    \/ NoCallYet /\ StartCall("reader", "LIST", "", Nil)
    \/ \E levelId \in Ids : \E level \in Bodies(levelId) :
          NoCallYet /\ StartCall("writer", "PUT", levelId, Ptr(level))
    \/ \E levelId \in Ids :
          NoCallYet /\ StartCall("writer", "DELETE", levelId, Nil)
    \/ \E slot \in Slots : \E fail \in MayFail(slot) : ResponseCacheGet(slot, fail)
    \/ \E slot \in Slots : \E fail \in MayFail(slot) : LevelCacheGet(slot, fail)
    \/ \E slot \in Slots : \E fail \in MayFail(slot) : DatastoreGet(slot, fail)
    \/ \E slot \in Slots : \E fail \in MayFail(slot) : LevelCacheSet(slot, fail)
    \/ \E slot \in Slots : \E fail \in MayFail(slot) : KeysQuery(slot, fail)
    \/ \E slot \in Slots : \E fail \in MayFail(slot) : ResponseCacheSet(slot, fail)
    \/ \E slot \in Slots : \E fail \in MayFail(slot) : DatastoreWrite(slot, fail)
    \/ \E slot \in Slots : \E fail \in MayFail(slot) : MemcacheDelete(slot, fail)
    \/ \E slot \in Slots : \E fail \in MayFail(slot) : ChildrenQuery(slot, fail)
    \/ \E slot \in Slots : Respond(slot)

SpecFail == InitSteps /\ [][NextFail]_vars

\* A request that reads and a request that writes, whose calls to memcache
\* and to the datastore interleave and do not fail.
NextRace ==
    \/ \E levelId \in Ids : StartCall("reader", "GET", levelId, Nil)
    \/ StartCall("reader", "LIST", "", Nil)
    \/ \E levelId \in Ids : \E level \in Bodies(levelId) :
          StartCall("writer", "PUT", levelId, Ptr(level))
    \/ \E levelId \in Ids : StartCall("writer", "DELETE", levelId, Nil)
    \/ \E slot \in Slots : ResponseCacheGet(slot, FALSE)
    \/ \E slot \in Slots : LevelCacheGet(slot, FALSE)
    \/ \E slot \in Slots : DatastoreGet(slot, FALSE)
    \/ \E slot \in Slots : LevelCacheSet(slot, FALSE)
    \/ \E slot \in Slots : KeysQuery(slot, FALSE)
    \/ \E slot \in Slots : ResponseCacheSet(slot, FALSE)
    \/ \E slot \in Slots : DatastoreWrite(slot, FALSE)
    \/ \E slot \in Slots : MemcacheDelete(slot, FALSE)
    \/ \E slot \in Slots : ChildrenQuery(slot, FALSE)
    \/ \E slot \in Slots : Respond(slot)

SpecRace == InitSteps /\ [][NextRace]_vars

\* The handler of a request that has answered returns, and the next request
\* may arrive.
Return(slot) ==
    /\ calls[slot].pc = "done"
    /\ calls' = [calls EXCEPT ![slot] = NoCall]
    /\ UNCHANGED <<store, cache, upserted, last>>

\* Requests that do not overlap, with a memcache that drops every entry: no
\* memcache.Set stores its entry, so that every memcache.Get misses.
NextNoCache ==
    \/ \E levelId \in Ids :
          NoCallYet /\ StartCall("reader", "GET", levelId, Nil)
    \/ NoCallYet /\ StartCall("reader", "LIST", "", Nil)
    \/ \E levelId \in Ids : \E level \in Bodies(levelId) :
          NoCallYet /\ StartCall("writer", "PUT", levelId, Ptr(level))
    \/ \E levelId \in Ids :
          NoCallYet /\ StartCall("writer", "DELETE", levelId, Nil)
    \/ \E slot \in Slots : ResponseCacheGet(slot, FALSE)
    \/ \E slot \in Slots : LevelCacheGet(slot, FALSE)
    \/ \E slot \in Slots : DatastoreGet(slot, FALSE)
    \/ \E slot \in Slots : LevelCacheSet(slot, TRUE)
    \/ \E slot \in Slots : KeysQuery(slot, FALSE)
    \/ \E slot \in Slots : ResponseCacheSet(slot, TRUE)
    \/ \E slot \in Slots : DatastoreWrite(slot, FALSE)
    \/ \E slot \in Slots : MemcacheDelete(slot, FALSE)
    \/ \E slot \in Slots : ChildrenQuery(slot, FALSE)
    \/ \E slot \in Slots : Respond(slot)
    \/ \E slot \in Slots : Return(slot)

SpecNoCache == Init /\ [][NextNoCache]_vars

\* Requests that do not overlap and whose calls succeed, where the body of
\* a PUT may name any id as parent, its own included.
CycleBodies == {[EmptyLevel EXCEPT !.Parent = parent] :
                   parent \in {Nil} \cup {Ptr(id) : id \in Ids}}

NextCycle ==
    \/ \E levelId \in Ids :
          NoCallYet /\ StartCall("reader", "GET", levelId, Nil)
    \/ \E levelId \in Ids : \E level \in CycleBodies :
          NoCallYet /\ StartCall("writer", "PUT", levelId, Ptr(level))
    \/ \E levelId \in Ids :
          NoCallYet /\ StartCall("writer", "DELETE", levelId, Nil)
    \/ \E slot \in Slots : ResponseCacheGet(slot, FALSE)
    \/ \E slot \in Slots : LevelCacheGet(slot, FALSE)
    \/ \E slot \in Slots : DatastoreGet(slot, FALSE)
    \/ \E slot \in Slots : LevelCacheSet(slot, FALSE)
    \/ \E slot \in Slots : ResponseCacheSet(slot, FALSE)
    \/ \E slot \in Slots : DatastoreWrite(slot, FALSE)
    \/ \E slot \in Slots : MemcacheDelete(slot, FALSE)
    \/ \E slot \in Slots : ChildrenQuery(slot, FALSE)
    \/ \E slot \in Slots : Respond(slot)
    \/ \E slot \in Slots : Return(slot)

SpecCycle == Init /\ [][NextCycle]_vars

\* The same requests where a handler that can make its next call makes it:
\* the goroutine of a request is not held back for ever.
SpecCycleFair == SpecCycle /\ WF_vars(NextCycle)

----------------------------------------------------------------------------
(* Vocabulary of the properties *)

HasParentReference(level) == level.HasParent /\ level.Parent # ""

\* resolve(id) in the current state.
Resolve(levelId) == getLevel(levelId, cache, store, {})

Resolves(levelId) == Resolve(levelId).err = NoError

\* The ids that the parent references of the store lead to from levelId.
RECURSIVE AncestorsIn(_, _, _)
AncestorsIn(s, levelId, seen) ==
    IF levelId \notin DOMAIN s \/ ~HasParentReference(s[levelId])
       \/ s[levelId].Parent \in seen
    THEN {}
    ELSE {s[levelId].Parent}
         \cup AncestorsIn(s, s[levelId].Parent, seen \cup {s[levelId].Parent})

DescendantsIn(s, levelId) == {d \in DOMAIN s : levelId \in AncestorsIn(s, d, {})}

ChildrenIn(s, levelId) ==
    {d \in DOMAIN s : HasParentReference(s[d]) /\ s[d].Parent = levelId}

LevelCached(levelId) == LevelCacheKey(levelId) \in DOMAIN cache

ResponseCached(levelId) ==
    ResponseCacheKey(buildResourcePath(levelId)) \in DOMAIN cache

QueryCached == ResponseCacheKey(queryAllKey) \in DOMAIN cache

\* The member of a response document for property f, <<>> when it has none.
Member(resp, f) ==
    IF resp.body[1] = "object" /\ JsonTag[f] \in DOMAIN resp.body[2]
    THEN <<resp.body[2][JsonTag[f]]>> ELSE <<>>

\* The member a level document has for property f of a request body.
BodyMember(level, f) ==
    IF level[f] # Nil THEN <<Deref(level[f])>> ELSE <<>>

----------------------------------------------------------------------------
(* C1 *)

\* C1: for every stored level C whose parent P resolves, resolve(C) takes each
\* inheritable property from C's own record when C sets it (also a zero
\* value) and otherwise from resolve(P), flag and value; Key and Parent of
\* resolve(C) are C's own.
C1_ResolveInheritsFromParent ==
    \A child \in DOMAIN store :
        (HasParentReference(store[child]) /\ Resolves(store[child].Parent)) =>
            LET own == store[child]
                parent == Resolve(store[child].Parent).result
            IN  /\ Resolves(child)
                /\ Resolve(child).result.Key = child
                /\ Resolve(child).result.Parent = own.Parent
                /\ \A f \in Fields :
                      IF own[Has(f)]
                      THEN /\ Resolve(child).result[Has(f)]
                           /\ Resolve(child).result[f] = own[f]
                      ELSE /\ Resolve(child).result[Has(f)] = parent[Has(f)]
                           /\ Resolve(child).result[f] = parent[f]

----------------------------------------------------------------------------
(* C3 *)

\* C3: after a successful PUT or DELETE of level X, neither X nor any
\* transitive descendant of X has a level entry or a response entry in the
\* cache, and the listing entry is gone.
C3_CascadeEvictsAllDescendants ==
    last.op \in {"PUT", "DELETE"} =>
        /\ ~QueryCached
        /\ \A d \in {last.id} \cup DescendantsIn(store, last.id) :
              ~LevelCached(d) /\ ~ResponseCached(d)

----------------------------------------------------------------------------
(* C2 *)

\* The step is a GET of `child` right after a PUT of its parent that changed
\* property f to a value, where child leaves f unset and child's level entry
\* and response entry were cached when the PUT arrived.
GetOfChildAfterParentUpdate(child, f) ==
    /\ last.op = "PUT"
    /\ last'.op = "GET" /\ last'.id = child
    /\ child \in ChildrenIn(store, last.id)
    /\ child \in last.cached
    /\ f \in last.changed
    /\ store[last.id][Has(f)]
    /\ ~store[child][Has(f)]

\* C2 as stated: that GET of the child returns the parent's new value of f.
C2_ChildGetReturnsNewParentValue ==
    [][\A child \in Ids : \A f \in Fields :
          GetOfChildAfterParentUpdate(child, f) =>
              /\ last'.resp.code = StatusOK
              /\ Member(last'.resp, f) = BodyMember(Deref(upserted[last.id]), f)]_vars

\* C2 amended: that GET is not answered from the response cache; it returns
\* the parent's new value of f when the parent resolves after the PUT, and
\* 404 when the parent's new record does not resolve.
C2_ChildGetFollowsParentUpdate ==
    [][\A child \in Ids : \A f \in Fields :
          GetOfChildAfterParentUpdate(child, f) =>
              /\ ~last'.hit
              /\ IF Resolves(last.id)
                 THEN /\ last'.resp.code = StatusOK
                      /\ Member(last'.resp, f) = BodyMember(Deref(upserted[last.id]), f)
                 ELSE last'.resp.code = StatusNotFound]_vars

\* A PUT has changed a property of a parent that still resolves, and a child
\* that leaves the property unset had been read and cached before.
C2_Witness ==
    /\ last.op = "PUT"
    /\ Resolves(last.id)
    /\ \E child \in ChildrenIn(store, last.id) : \E f \in last.changed :
          /\ child \in last.cached
          /\ store[last.id][Has(f)]
          /\ ~store[child][Has(f)]

----------------------------------------------------------------------------
(* C4 *)

\* C4: a stored level whose parent reference names no stored level does not
\* resolve: getLevel fails with ErrNoSuchEntity and a GET answers 404.
C4_DanglingParentIsNotFound ==
    \A child \in DOMAIN store :
        (HasParentReference(store[child]) /\ store[child].Parent \notin DOMAIN store) =>
            /\ Resolve(child).err = ErrNoSuchEntity
            /\ handleGet(child, cache, store).resp.code = StatusNotFound

\* A GET of a stored level with a dangling parent reference has answered 404.
C4_Witness ==
    /\ last.op = "GET"
    /\ last.id \in DOMAIN store
    /\ HasParentReference(store[last.id])
    /\ store[last.id].Parent \notin DOMAIN store
    /\ last.resp.code = StatusNotFound

----------------------------------------------------------------------------
(* C5 *)

\* C5: a DELETE of P removes P's entity and nothing else from the datastore,
\* and afterwards every stored child of P fails to resolve with
\* ErrNoSuchEntity and its GET answers 404.
C5_DeleteParentKeepsChildren ==
    [][last'.op = "DELETE" =>
          /\ DOMAIN store' = DOMAIN store \ {last'.id}
          /\ \A other \in DOMAIN store' : store'[other] = store[other]
          /\ \A child \in ChildrenIn(store', last'.id) :
                /\ getLevel(child, cache', store', {}).err = ErrNoSuchEntity
                /\ handleGet(child, cache', store').resp.code = StatusNotFound]_vars

\* A DELETE has removed a parent whose stored child had its merged level and
\* its GET response cached.
C5_Witness ==
    /\ last.op = "DELETE"
    /\ \E child \in ChildrenIn(store, last.id) : child \in last.cached

----------------------------------------------------------------------------
(* C6 *)

\* C6: whatever requests came before, a GET of an id whose latest stored
\* upsert carried no parent answers 200 with exactly the members of that
\* upsert's body and the id as key.
C6_GetReturnsLatestUpsert ==
    \A id \in Ids :
        (upserted[id] # Nil /\ Deref(upserted[id]).Parent = Nil) =>
            handleGet(id, cache, store).resp =
                ContextJSON(StatusOK,
                    MarshalJsonLevel([Deref(upserted[id]) EXCEPT !.Key = Ptr(id)]))

\* A PUT without parent has replaced a level whose merged level and GET
\* response were cached, and leaves unset a property the earlier upsert set.
C6_Witness ==
    /\ last.op = "PUT" /\ ~last.created
    /\ last.id \in last.cached
    /\ Deref(upserted[last.id]).Parent = Nil
    /\ \E f \in last.changed : Deref(upserted[last.id])[f] = Nil

----------------------------------------------------------------------------
(* C7 *)

\* C7: in the state a successful DELETE of an id leaves, a GET of the id
\* answers 404.
C7_GetAfterDeleteIsNotFound ==
    (last.op = "DELETE" /\ last.resp.code = StatusOK) =>
        handleGet(last.id, cache, store).resp.code = StatusNotFound

\* A DELETE has removed a level whose merged level and 200 response were cached.
C7_Witness ==
    /\ last.op = "DELETE" /\ last.resp.code = StatusOK
    /\ last.id \in last.cached

----------------------------------------------------------------------------
(* C8 *)

CachedResponse(c, id) ==
    UnmarshalResponseEntry(c[ResponseCacheKey(buildResourcePath(id))])

HasCachedNotFound(c, id) ==
    /\ ResponseCacheKey(buildResourcePath(id)) \in DOMAIN c
    /\ CachedResponse(c, id).Code = StatusNotFound

\* A GET of an id that does not resolve answers 404 and caches the 404.
NotFoundIsCached ==
    (last'.op = "GET" /\ Resolve(last'.id).err = ErrNoSuchEntity) =>
        /\ last'.resp.code = StatusNotFound
        /\ HasCachedNotFound(cache', last'.id)

\* A GET of an id with a cached 404 is answered 404 from the response cache.
CachedNotFoundIsServed ==
    (last'.op = "GET" /\ HasCachedNotFound(cache, last'.id)) =>
        /\ last'.hit
        /\ last'.resp = ContextJSON(StatusNotFound, CachedResponse(cache, last'.id).Response)
        /\ cache' = cache

\* A cached 404 stays until a PUT or DELETE invalidates the id, as the id of
\* the request or as a child of it.
CachedNotFoundStaysUntilInvalidated ==
    \A id \in Ids :
        (HasCachedNotFound(cache, id) /\ ~HasCachedNotFound(cache', id)) =>
            /\ last'.op \in {"PUT", "DELETE"}
            /\ id \in {last'.id} \cup ChildrenIn(store', last'.id)

\* The PUT creates an id whose 404 was cached.
CreatesAfterCachedNotFound ==
    /\ last'.op = "PUT" /\ last'.created
    /\ HasCachedNotFound(cache, last'.id)

\* C8 as stated: ... and after a PUT has created the id, the next GET answers
\* 200 with the members of the new record.
C8_NotFoundCachedUntilCreated ==
    [][/\ NotFoundIsCached
       /\ CachedNotFoundIsServed
       /\ CachedNotFoundStaysUntilInvalidated
       /\ CreatesAfterCachedNotFound =>
             LET resp == handleGet(last'.id, cache', store').resp
             IN  /\ resp.code = StatusOK
                 /\ \A f \in Fields :
                       Deref(upserted'[last'.id])[f] # Nil =>
                           Member(resp, f) = BodyMember(Deref(upserted'[last'.id]), f)]_vars

\* C8 amended: ... and after a PUT has created the id, the next GET is not
\* answered from the cached 404: it answers 200 with the members of the new
\* record when the new record resolves, and a fresh 404 when the new record
\* names a parent that does not resolve.
C8_NotFoundCachedUntilInvalidated ==
    [][/\ NotFoundIsCached
       /\ CachedNotFoundIsServed
       /\ CachedNotFoundStaysUntilInvalidated
       /\ CreatesAfterCachedNotFound =>
             LET resp == handleGet(last'.id, cache', store').resp
                 got == getLevel(last'.id, cache', store', {})
             IN  /\ ~HasCachedNotFound(cache', last'.id)
                 /\ IF got.err = NoError
                    THEN /\ resp.code = StatusOK
                         /\ \A f \in Fields :
                               Deref(upserted'[last'.id])[f] # Nil =>
                                   Member(resp, f) =
                                       BodyMember(Deref(upserted'[last'.id]), f)
                    ELSE resp = ContextString(StatusNotFound, "Level does not exist")]_vars

\* A repeated GET of an id that is not stored has been answered 404 from the
\* response cache.
C8_Witness ==
    /\ last.op = "GET" /\ last.hit
    /\ last.id \notin DOMAIN store
    /\ last.resp.code = StatusNotFound

----------------------------------------------------------------------------
(* C9 *)

\* C9: a stored level without parent reference resolves to exactly its own
\* stored record, flags and values, and its GET answers the members of that
\* record.
C9_ParentlessResolvesToOwnRecord ==
    \A id \in DOMAIN store :
        ~HasParentReference(store[id]) =>
            /\ Resolve(id).err = NoError
            /\ Resolve(id).result = store[id]
            /\ handleGet(id, cache, store).resp =
                   ContextJSON(StatusOK, MarshalJsonLevel(ToJsonLevel(store[id])))

\* A GET from the datastore of a level without parent has answered without a
\* property that the level leaves unset and that another stored level sets.
C9_Witness ==
    /\ last.op = "GET" /\ ~last.hit
    /\ last.id \in DOMAIN store
    /\ ~HasParentReference(store[last.id])
    /\ last.resp.code = StatusOK
    /\ \E f \in Fields : \E other \in DOMAIN store \ {last.id} :
          /\ ~store[last.id][Has(f)]
          /\ store[other][Has(f)]
          /\ Member(last.resp, f) = <<>>

----------------------------------------------------------------------------
(* C10 *)

\* The merged levels, as JsonLevels, of the keys that resolve, in key order.
ResolvedLevels(keys) ==
    LET resolving == SelectSeq(keys, LAMBDA id : Resolves(id))
    IN  [i \in 1..Len(resolving) |-> ToJsonLevel(Resolve(resolving[i]).result)]

\* C10: a listing that misses the response cache answers 200 with, in the
\* order of the keys query, the merged level resolve returns for each listed
\* id that resolves.
C10_ListingHoldsMergedLevels ==
    [][(last'.op = "LIST" /\ ~QueryCached) =>
          last'.resp = ContextJSON(StatusOK,
                           MarshalJsonLevels(ResolvedLevels(QueryAllKeys(store))))]_vars

\* A listing computed from the datastore holds at least two levels, one of
\* them with a property that its own record leaves unset.
C10_Witness ==
    /\ last.op = "LIST" /\ ~last.hit
    /\ last.resp.body[1] = "array"
    /\ Len(last.resp.body[2]) >= 2
    /\ \E i \in 1..Len(last.resp.body[2]) : \E f \in Fields :
          LET element == last.resp.body[2][i]
          IN  /\ JsonTag[f] \in DOMAIN element[2]
              /\ ~store[element[2]["key"]][Has(f)]

----------------------------------------------------------------------------
(* C12 *)

\* The keys of the levels of a listing response, in the order of the
\* response; a null body holds none.
ListedKeys(resp) ==
    IF resp.body[1] = "array"
    THEN [i \in 1..Len(resp.body[2]) |-> resp.body[2][i][2]["key"]]
    ELSE <<>>

\* The ids of the keys query that resolve, in the order of the query.
ResolvingKeys(c, s) ==
    SelectSeq(QueryAllKeys(s), LAMBDA id : getLevel(id, c, s, {}).err = NoError)

\* C12: when a stored id does not resolve, a listing computed from the
\* datastore still answers 200 with a JSON body whose levels are exactly the
\* listed ids that resolve, in query order: the failing id is left out and
\* no error reaches the caller.
C12_ListingSkipsFailingIds ==
    [][(last'.op = "LIST" /\ ~QueryCached
            /\ \E id \in DOMAIN store : ~Resolves(id)) =>
          /\ last'.resp.code = StatusOK
          /\ last'.resp.ctype = "application/json"
          /\ last'.resp.body[1] \in {"array", "null"}
          /\ ListedKeys(last'.resp) = ResolvingKeys(cache, store)
          /\ \A id \in DOMAIN store :
                ~Resolves(id) =>
                    \A i \in 1..Len(ListedKeys(last'.resp)) :
                        ListedKeys(last'.resp)[i] # id]_vars

\* A listing computed from the datastore has left out a stored level whose
\* parent is not stored, and holds another level.
C12_Witness ==
    /\ last.op = "LIST" /\ ~last.hit
    /\ last.resp.code = StatusOK
    /\ Len(ListedKeys(last.resp)) >= 1
    /\ \E id \in DOMAIN store :
          /\ HasParentReference(store[id])
          /\ store[id].Parent \notin DOMAIN store
          /\ \A i \in 1..Len(ListedKeys(last.resp)) : ListedKeys(last.resp)[i] # id

----------------------------------------------------------------------------
(* C13 *)

\* What a DELETE leaves for the other ids: their records are the same, and a
\* GET of another stored level without parent answers 200 with its record.
DeleteKeepsOtherLevels ==
    /\ DOMAIN store' = DOMAIN store \ {last'.id}
    /\ \A other \in DOMAIN store \ {last'.id} :
          /\ store'[other] = store[other]
          /\ ~HasParentReference(store[other]) =>
                handleGet(other, cache', store').resp =
                    ContextJSON(StatusOK, MarshalJsonLevel(ToJsonLevel(store[other])))

----------------------------------------------------------------------------
(* C14 *)

\* C14: a DELETE of an id that is not stored answers 200 with a null body and
\* leaves the datastore as it was.
C14_DeleteOfMissingSucceeds ==
    [][(last'.op = "DELETE" /\ last'.id \notin DOMAIN store) =>
          /\ last'.resp = ContextJSON(StatusOK, JsonNull)
          /\ store' = store]_vars

\* A DELETE of an id that was not stored has been answered while other
\* levels are stored.
C14_Witness ==
    /\ last.op = "DELETE" /\ last.missing
    /\ store # <<>>

----------------------------------------------------------------------------
(* C19 *)

\* C19: a resolve that fails with NotFound writes no level entry for the id;
\* every level entry a request writes holds the result of a resolve of its id
\* that succeeded; a PUT, POST or DELETE writes no level entry.
C19_NoNegativeLevelEntries ==
    [][\A id \in Ids :
          /\ (last'.op \in {"GET", "LIST"} /\ Resolve(id).err = ErrNoSuchEntity) =>
                LevelCacheKey(id) \notin DOMAIN cache'
          /\ (/\ LevelCacheKey(id) \in DOMAIN cache'
              /\ \/ LevelCacheKey(id) \notin DOMAIN cache
                 \/ cache'[LevelCacheKey(id)] # cache[LevelCacheKey(id)]) =>
                /\ last'.op \in {"GET", "LIST"}
                /\ Resolve(id).err = NoError
                /\ UnmarshalLevelEntry(cache'[LevelCacheKey(id)]) = Resolve(id).result]_vars

\* A GET has answered 404 for a stored level whose stored parent names a
\* parent that is not stored; neither level has a level entry.
C19_Witness ==
    /\ last.op = "GET" /\ ~last.hit
    /\ last.resp.code = StatusNotFound
    /\ last.id \in DOMAIN store
    /\ store[last.id].Parent \in DOMAIN store
    /\ HasParentReference(store[store[last.id].Parent])
    /\ store[store[last.id].Parent].Parent \notin DOMAIN store
    /\ ~LevelCached(last.id)
    /\ ~LevelCached(store[last.id].Parent)

----------------------------------------------------------------------------
(* C11 *)

\* C11: in every reachable state the listing holds at most QueryLimit levels,
\* and exactly QueryLimit when more than QueryLimit levels are stored and all
\* of them resolve; so does the response of the latest listing request.
C11_ListingHoldsAtMostLimit ==
    LET listing == ListedKeys(handleQuery(cache, store).resp)
    IN  /\ Len(listing) <= QueryLimit
        /\ (/\ Cardinality(DOMAIN store) > QueryLimit
            /\ \A id \in DOMAIN store : Resolves(id)) => Len(listing) = QueryLimit
        /\ last.op = "LIST" =>
              /\ last.resp.code = StatusOK
              /\ ListedKeys(last.resp) = listing

\* A listing request has answered QueryLimit levels from a store of more
\* than QueryLimit levels.
C11_Witness ==
    /\ last.op = "LIST" /\ ~last.hit
    /\ Cardinality(DOMAIN store) > QueryLimit
    /\ Len(ListedKeys(last.resp)) = QueryLimit

----------------------------------------------------------------------------
(* C15 *)

\* The positions in the log of a call of the calls of `name` with `arg`.
Events(call, name, arg) ==
    {i \in 1..Len(call.log) : call.log[i][1] = name /\ call.log[i][2] = arg}

\* The cache keys of a level: its response entry and its level entry.
KeysOf(levelId) ==
    {ResponseCacheKey(buildResourcePath(levelId)), LevelCacheKey(levelId)}

Answered(call, code) == call.resp.code = code

IsWrite(call) == call.op \in {"PUT", "DELETE"}

ChildIds(levelId) ==
    {QueryChildKeys(store, levelId)[i] : i \in 1..Len(QueryChildKeys(store, levelId))}

\* C15: a PUT, POST or DELETE that has answered 200 has no statement left;
\* the first call it made is its write to the datastore, which succeeded,
\* the last is its one response, and between them it called memcache.Delete
\* for the response entry and the level entry of its level, ran the children
\* query and, when that succeeded, called memcache.Delete for both entries
\* of every child, and called memcache.Delete for the listing entry exactly
\* once; when none of these calls failed, none of these entries is cached
\* at the response.
C15_WriteThenEvictionsThenResponse ==
    \A slot \in Slots :
        LET call == calls[slot]
            log == call.log
        IN  IsWrite(call) /\ Answered(call, StatusOK) =>
              /\ call.pc = "done" /\ call.todo = <<>>
              /\ log[1] \in {<<"datastore.Put", call.id, "ok">>,
                              <<"datastore.Delete", call.id, "ok">>}
              /\ log[Len(log)] = <<"respond", StatusOK, "ok">>
              /\ Cardinality({i \in 1..Len(log) : log[i][1] = "respond"}) = 1
              /\ Cardinality(Events(call, "memcache.Delete",
                                    ResponseCacheKey(queryAllKey))) = 1
              /\ \A key \in KeysOf(call.id) :
                    Events(call, "memcache.Delete", key) # {}
              /\ Events(call, "query.GetAll", call.id) # {}
              /\ <<"query.GetAll", call.id, "ok">> \in
                        {log[i] : i \in 1..Len(log)} =>
                    \A child \in ChildIds(call.id) : \A key \in KeysOf(child) :
                        Events(call, "memcache.Delete", key) # {}
              /\ Faults(call) = 0 =>
                    \A levelId \in {call.id} \cup ChildIds(call.id) :
                        /\ KeysOf(levelId) \cap DOMAIN cache = {}
                        /\ ResponseCacheKey(queryAllKey) \notin DOMAIN cache

\* A write of a level with two children has answered 200 after its ten
\* calls, none of which failed.
C15_Witness ==
    \E slot \in Slots :
        /\ IsWrite(calls[slot]) /\ Answered(calls[slot], StatusOK)
        /\ Cardinality(ChildIds(calls[slot].id)) = 2
        /\ Faults(calls[slot]) = 0
        /\ Len(calls[slot].log) = 10

----------------------------------------------------------------------------
(* C16 *)

\* The calls of a call that failed, as the positions in its log.
FailedCalls(call) ==
    {i \in 1..Len(call.log) : call.log[i][3] \in {ErrDatastore, ErrCacheFailure}}

\* The write has returned and of its calls only the children query failed.
OnlyChildrenQueryFailed(call) ==
    /\ IsWrite(call) /\ call.pc = "done"
    /\ FailedCalls(call) # {}
    /\ \A i \in FailedCalls(call) : call.log[i][1] = "query.GetAll"

\* The stored level that a PUT of the body under the id leaves.
Written(call) == ToDatastoreLevel([Deref(call.body) EXCEPT !.Key = Ptr(call.id)])

\* C16: a PUT, POST or DELETE whose write to the datastore succeeded and
\* whose children query failed (and no other call) has answered 200; the
\* level is stored as written (or no longer stored, for a DELETE); neither
\* the response entry nor the level entry of its level nor the listing
\* entry is cached; and it called memcache.Delete for no other key.
C16_ChildrenQueryFailureStillSucceeds ==
    \A slot \in Slots :
        LET call == calls[slot]
        IN  OnlyChildrenQueryFailed(call) =>
              /\ call.resp = ContextJSON(StatusOK, JsonNull)
              /\ IF call.op = "PUT"
                 THEN call.id \in DOMAIN store /\ store[call.id] = Written(call)
                 ELSE call.id \notin DOMAIN store
              /\ KeysOf(call.id) \cap DOMAIN cache = {}
              /\ ResponseCacheKey(queryAllKey) \notin DOMAIN cache
              /\ \A i \in 1..Len(call.log) :
                    call.log[i][1] = "memcache.Delete" =>
                        call.log[i][2] \in KeysOf(call.id)
                                            \cup {ResponseCacheKey(queryAllKey)}

\* A write whose children query failed has returned, and both entries of a
\* child of its level are still cached.
C16_Witness ==
    \E slot \in Slots : \E child \in Ids :
        /\ OnlyChildrenQueryFailed(calls[slot])
        /\ child \in ChildIds(calls[slot].id)
        /\ KeysOf(child) \subseteq DOMAIN cache

----------------------------------------------------------------------------
(* C17 *)

\* The call is a GET, and a datastore.Get of its level or of an ancestor of
\* its level failed with an error other than ErrNoSuchEntity.
StoreGetFailed(call) ==
    /\ call.op = "GET"
    /\ \E i \in 1..Len(call.log) :
          call.log[i][1] = "datastore.Get" /\ call.log[i][3] = ErrDatastore

\* C17: a GET in which a datastore.Get of the level or of an ancestor failed
\* with an error other than ErrNoSuchEntity has answered 500, which is not
\* the answer for a missing level, with that call as its last before the
\* response; it called memcache.Set neither for the response entry of its
\* path nor for the level entry of its level, and neither entry is cached
\* unless the response cache get failed.
C17_StoreErrorIsInternalError ==
    \A slot \in Slots :
        LET call == calls[slot]
            log == call.log
        IN  StoreGetFailed(call) =>
              /\ call.pc = "done"
              /\ call.resp = ContextString(StatusInternalServerError,
                                           "Could not retrieve the level")
              /\ call.resp.code # StatusNotFound
              /\ log[Len(log) - 1][1] = "datastore.Get"
              /\ log[Len(log) - 1][3] = ErrDatastore
              /\ \A i \in 1..Len(log) :
                    log[i][1] = "memcache.Set" => log[i][2] \notin KeysOf(call.id)
              /\ log[1][3] = ErrCacheMiss =>
                    ResponseCacheKey(buildResourcePath(call.id)) \notin DOMAIN cache

\* A GET has answered after the datastore.Get of an ancestor of its level
\* failed.
C17_Witness ==
    \E slot \in Slots :
        /\ StoreGetFailed(calls[slot])
        /\ calls[slot].pc = "done"
        /\ \E i \in 1..Len(calls[slot].log) :
              /\ calls[slot].log[i] \in
                    {<<"datastore.Get", id, ErrDatastore>> : id \in Ids \ {calls[slot].id}}

----------------------------------------------------------------------------
(* C18 *)

\* The call has returned, and of its calls one or more to memcache failed
\* and none to the datastore.
OnlyCacheFailed(call) ==
    /\ call.pc = "done"
    /\ FailedCalls(call) # {}
    /\ \A i \in FailedCalls(call) : call.log[i][3] = ErrCacheFailure

\* The response of the request of a call when memcache holds nothing.
ResponseWithEmptyCache(call) ==
    IF call.op = "GET" THEN handleGet(call.id, <<>>, store).resp
    ELSE handleQuery(<<>>, store).resp

\* C18: a GET or a listing in which calls to memcache failed (and none to
\* the datastore) answers what it answers when memcache holds nothing, and
\* a PUT, POST or DELETE in which calls to memcache failed answers 200.
C18_CacheFailureNeverChangesAnswer ==
    \A slot \in Slots :
        LET call == calls[slot]
        IN  OnlyCacheFailed(call) =>
                IF IsWrite(call) THEN call.resp = ContextJSON(StatusOK, JsonNull)
                ELSE call.resp = ResponseWithEmptyCache(call)

----------------------------------------------------------------------------
(* C20 *)

\* The request that reads and the request that writes overlap: neither had
\* returned when the other arrived.
Overlap ==
    /\ calls["reader"].pc # "idle" /\ calls["writer"].pc # "idle"
    /\ "writer" \notin calls["reader"].began.returned
    /\ "reader" \notin calls["writer"].began.returned

\* A GET of a level C has returned that overlaps a PUT of P, where, in the
\* store at the arrival of the PUT, P is the parent of C and C leaves f
\* unset, and P sets f both there and in the body of the PUT, to different
\* values.
ChildGetOverlapsParentPut(f) ==
    LET reader == calls["reader"]
        writer == calls["writer"]
        old == writer.began.store
    IN  /\ Overlap
        /\ reader.op = "GET" /\ reader.pc = "done" /\ writer.op = "PUT"
        /\ reader.id \in DOMAIN old /\ writer.id \in DOMAIN old
        /\ old[reader.id].HasParent /\ old[reader.id].Parent = writer.id
        /\ ~old[reader.id][Has(f)]
        /\ old[writer.id][Has(f)] /\ Written(writer)[Has(f)]
        /\ old[writer.id][f] # Written(writer)[f]

\* The member for f of P's record before the PUT and of the body of the PUT.
OldMember(f) ==
    BodyMember(ToJsonLevel(calls["writer"].began.store[calls["writer"].id]), f)

NewMember(f) == BodyMember(Deref(calls["writer"].body), f)

\* P resolves from the datastore alone, before the PUT and after it.
ParentResolvesBefore ==
    getLevel(calls["writer"].id, <<>>, calls["writer"].began.store, {}).err = NoError

ParentResolvesAfter ==
    getLevel(calls["writer"].id, <<>>,
             DatastorePut(calls["writer"].began.store, calls["writer"].id,
                          Written(calls["writer"])), {}).err = NoError

C20_OldValueReturned ==
    \E f \in Fields :
        /\ ChildGetOverlapsParentPut(f)
        /\ calls["writer"].pc = "done"
        /\ Member(calls["reader"].resp, f) = OldMember(f)

\* That GET has answered 404.
C20_NotFoundReturned ==
    \E f \in Fields :
        /\ ChildGetOverlapsParentPut(f)
        /\ calls["reader"].resp.code = StatusNotFound

----------------------------------------------------------------------------
(* C30 *)

\* The write to the datastore of the call failed.
StoreWriteFailed(call) ==
    /\ IsWrite(call) /\ call.log # <<>>
    /\ call.log[1][1] \in {"datastore.Put", "datastore.Delete"}
    /\ call.log[1][3] = ErrDatastore

\* C30: the step in which the datastore.Put of a PUT or POST or the
\* datastore.Delete of a DELETE fails leaves the store and memcache as they
\* are and answers 500, and the request has then returned: it makes no
\* further call, and neither the store nor memcache changes after it.
C30_FailedWriteChangesNothing ==
    [][\A slot \in Slots :
          StoreWriteFailed(calls'[slot]) =>
              /\ calls'[slot].pc = "done"
              /\ calls'[slot].resp.code = StatusInternalServerError
              /\ Len(calls'[slot].log) = 2
              /\ calls'[slot].log[2] = <<"respond", StatusInternalServerError, "ok">>
              /\ store' = store /\ store' = calls'[slot].began.store
              /\ cache' = cache]_vars

\* A PUT whose datastore.Put failed has returned while the entries of its
\* level, of a child of its level and of the listing are cached.
C30_Witness ==
    \E slot \in Slots : \E child \in Ids :
        /\ StoreWriteFailed(calls[slot])
        /\ calls[slot].op = "PUT" /\ calls[slot].pc = "done"
        /\ child \in ChildIds(calls[slot].id)
        /\ KeysOf(calls[slot].id) \cup KeysOf(child)
               \cup {ResponseCacheKey(queryAllKey)} \subseteq DOMAIN cache

----------------------------------------------------------------------------
(* C27 *)

\* The keys query of the listing failed.
KeysQueryFailed(call) ==
    /\ call.op = "LIST"
    /\ <<"query.GetAll", "", ErrDatastore>> \in
            {call.log[i] : i \in 1..Len(call.log)}

\* C27: a listing whose keys query failed does not answer 200 and does not
\* call memcache.Set for the listing entry.
C27_FailedKeysQueryIsReported ==
    \A slot \in Slots :
        LET call == calls[slot]
        IN  KeysQueryFailed(call) =>
              /\ call.resp.code # StatusOK
              /\ Events(call, "memcache.Set", ResponseCacheKey(queryAllKey)) = {}

----------------------------------------------------------------------------
(* C23 *)

\* Every call of `name` with an argument of `first` comes, in the log of the
\* call, before every call of `name` with an argument of `second`.
Before(call, name, first, second) ==
    \A i, j \in 1..Len(call.log) :
        /\ call.log[i][1] = name /\ call.log[i][2] \in first
        /\ call.log[j][1] = name /\ call.log[j][2] \in second
        => i < j

ChildKeys(levelId) == UNION {KeysOf(child) : child \in ChildIds(levelId) \ {levelId}}

\* C23: in the log of a PUT, POST or DELETE of X, memcache.Delete of the
\* level entry of X comes before that of the response entry of X, that
\* before those of the entries of the children of X, and those before that
\* of the listing entry; and the response entry of X is never evicted
\* before the level entry of X.
C23_LevelEntryEvictedFirst ==
    \A slot \in Slots :
        LET call == calls[slot]
            levelKey == {LevelCacheKey(call.id)}
            responseKey == {ResponseCacheKey(buildResourcePath(call.id))}
        IN  IsWrite(call) =>
              /\ Before(call, "memcache.Delete", levelKey, responseKey)
              /\ Before(call, "memcache.Delete", responseKey, ChildKeys(call.id))
              /\ Before(call, "memcache.Delete", ChildKeys(call.id),
                        {ResponseCacheKey(queryAllKey)})
              /\ Events(call, "memcache.Delete",
                        ResponseCacheKey(buildResourcePath(call.id))) # {} =>
                    Events(call, "memcache.Delete", LevelCacheKey(call.id)) # {}

----------------------------------------------------------------------------
(* C21 *)

\* The entry cached under the key is the one that `fresh`, a cache filled
\* from the current store alone, holds under it.
SameAsIn(fresh, key) ==
    key \in DOMAIN cache => key \in DOMAIN fresh /\ cache[key] = fresh[key]

\* The entries of a level that are cached are those that a GET of the level
\* writes when memcache holds nothing; so is the listing entry.
LevelEntriesFresh(levelId) ==
    \A key \in KeysOf(levelId) : SameAsIn(handleGet(levelId, <<>>, store).cache, key)

ListingEntryFresh ==
    SameAsIn(handleQuery(<<>>, store).cache, ResponseCacheKey(queryAllKey))

\* A read and a write that overlap have both returned; the read is a
\* listing, or a GET of the written level or of a level that names it as
\* parent.
RaceOver ==
    LET reader == calls["reader"]
        writer == calls["writer"]
    IN  /\ Overlap /\ reader.pc = "done" /\ writer.pc = "done"
        /\ \/ reader.op = "LIST"
           \/ reader.id = writer.id
           \/ /\ reader.id \in DOMAIN store
              /\ store[reader.id].Parent = writer.id

\* C21: once both requests have returned, the level entry and the response
\* entry of the written level and of the level read, and the listing entry,
\* are not cached or hold what is computed from the store as the write left
\* it.
C21_NoStaleEntryAfterRace ==
    RaceOver =>
        /\ LevelEntriesFresh(calls["writer"].id)
        /\ calls["reader"].op = "GET" => LevelEntriesFresh(calls["reader"].id)
        /\ ListingEntryFresh

----------------------------------------------------------------------------
(* C25 *)

\* The ids for which the call made `name` with the outcome.
IdsOf(call, name, outcome) ==
    {id \in Ids : \E i \in 1..Len(call.log) :
        /\ call.log[i][1] = name /\ call.log[i][3] = outcome
        /\ call.log[i][2] \in {id, LevelCacheKey(id)}}

\* A GET that was not answered from the response cache has answered 200,
\* and none of the calls of its resolve failed.
Resolved(call) ==
    /\ call.op = "GET" /\ call.pc = "done" /\ Answered(call, StatusOK)
    /\ FailedCalls(call) \subseteq {1}
    /\ call.log[1][3] # "ok"

\* C25: in a GET whose resolve succeeded, the resolve wrote one level entry
\* for each level it read from the datastore, under that level's id, and no
\* other; when every get of the level cache missed, these are the level of
\* the GET and its ancestors, and each entry holds the merged level of its
\* id, as computed from the store alone; when the level cache held the
\* level of the GET, the resolve wrote no entry and read nothing from the
\* datastore.
C25_ResolveWritesOneEntryPerLevel ==
    \A slot \in Slots :
        LET call == calls[slot]
            read == IdsOf(call, "datastore.Get", "ok")
            written == IdsOf(call, "memcache.Set", "ok")
        IN  Resolved(call) =>
              /\ written = read
              /\ \A id \in written :
                    Cardinality(Events(call, "memcache.Set", LevelCacheKey(id))) = 1
              /\ IdsOf(call, "memcache.Get", "ok") = {} =>
                    /\ written = {call.id} \cup AncestorsIn(store, call.id, {})
                    /\ \A id \in written :
                          /\ LevelCacheKey(id) \in DOMAIN cache
                          /\ UnmarshalLevelEntry(cache[LevelCacheKey(id)]) =
                                getLevel(id, <<>>, store, {}).result
                          /\ UnmarshalLevelEntry(cache[LevelCacheKey(id)]).Key = id
              /\ call.log[2] = <<"memcache.Get", LevelCacheKey(call.id), "ok">> =>
                    written = {} /\ read = {}

\* A GET of a level with two ancestors has resolved with every get of the
\* level cache missing.
C25_Witness ==
    \E slot \in Slots :
        /\ Resolved(calls[slot])
        /\ IdsOf(calls[slot], "memcache.Get", "ok") = {}
        /\ Cardinality(IdsOf(calls[slot], "memcache.Set", "ok")) = 3

\* A GET has resolved from the level cache.
C25_ResolvedFromLevelCache ==
    \E slot \in Slots :
        /\ Resolved(calls[slot])
        /\ calls[slot].log[2] = <<"memcache.Get", LevelCacheKey(calls[slot].id), "ok">>

----------------------------------------------------------------------------
(* C24 *)

\* The stored level sets every inheritable property.
SetsEveryProperty(levelId) == \A f \in Fields : store[levelId][Has(f)]

\* The call that follows the i-th call of the log is a get of the level
\* cache for the parent of the stored level.
ParentReadFollows(call, i, levelId) ==
    /\ call.log[i + 1][1] = "memcache.Get"
    /\ call.log[i + 1][2] = LevelCacheKey(store[levelId].Parent)

\* C24 as stated: after resolve has read a level from the datastore, it
\* reads the parent exactly when the level has a parent reference and
\* leaves a property unset.
C24_ParentReadOnlyWhenUnset ==
    \A slot \in Slots : \A levelId \in Ids :
        LET call == calls[slot]
        IN  \A i \in 1..(Len(call.log) - 1) :
                call.log[i] = <<"datastore.Get", levelId, "ok">> =>
                    (ParentReadFollows(call, i, levelId) <=>
                        /\ HasParentReference(store[levelId])
                        /\ ~SetsEveryProperty(levelId))

\* C24 amended: after resolve has read a level from the datastore, it reads
\* the parent exactly when the level has a parent reference, whether or not
\* the level leaves a property unset; otherwise it goes on to cache the
\* level.
C24_ParentReadWhenReferenced ==
    \A slot \in Slots : \A levelId \in Ids :
        LET call == calls[slot]
        IN  \A i \in 1..(Len(call.log) - 1) :
                call.log[i] = <<"datastore.Get", levelId, "ok">> =>
                    IF HasParentReference(store[levelId])
                    THEN ParentReadFollows(call, i, levelId)
                    ELSE /\ call.log[i + 1][1] = "memcache.Set"
                         /\ call.log[i + 1][2] = LevelCacheKey(levelId)

\* A GET of a level that sets every property and names a parent that is not
\* stored has read the parent and answered 404.
C24_Witness ==
    \E slot \in Slots :
        LET call == calls[slot]
        IN  /\ call.op = "GET" /\ call.pc = "done" /\ FailedCalls(call) = {}
            /\ call.id \in DOMAIN store
            /\ SetsEveryProperty(call.id)
            /\ Answered(call, StatusNotFound)
            /\ \E i \in 1..(Len(call.log) - 1) :
                  /\ call.log[i] = <<"datastore.Get", call.id, "ok">>
                  /\ ParentReadFollows(call, i, call.id)

----------------------------------------------------------------------------
(* C28 *)

\* C28: the level stored under a key has its Key property present and equal
\* to that key, whatever key the body of the PUT carried; and every level
\* entry cached under level:<k> holds a level whose Key is k and whose
\* parent reference is the one of the stored level k.
C28_KeyAndParentAreOwn ==
    /\ \A k \in DOMAIN store : store[k].HasKey /\ store[k].Key = k
    /\ \A k \in Ids :
          LevelCached(k) =>
              LET entry == UnmarshalLevelEntry(cache[LevelCacheKey(k)])
              IN  /\ entry.HasKey /\ entry.Key = k
                  /\ k \in DOMAIN store
                  /\ entry.HasParent = store[k].HasParent
                  /\ entry.Parent = store[k].Parent

\* A level whose PUT carried another key in its body is stored with a parent
\* reference, and it and its parent are cached.
C28_Witness ==
    \E k \in DOMAIN store :
        /\ upserted[k] # Nil
        /\ Deref(upserted[k]).Key \notin {Nil, Ptr(k)}
        /\ HasParentReference(store[k])
        /\ LevelCached(k) /\ LevelCached(store[k].Parent)

----------------------------------------------------------------------------
(* C29 *)

\* No stored level that has a parent reference is named as parent by a
\* stored level.
DepthAtMostOne(s) ==
    \A k \in DOMAIN s :
        HasParentReference(s[k]) =>
            \A j \in DOMAIN s : ~(HasParentReference(s[j]) /\ s[j].Parent = k)

\* C29: in a state reached by requests that do not overlap and whose calls
\* succeed, and in which the hierarchy has depth at most one, every cached
\* level entry and response entry of an id is the one a GET of the id writes
\* when memcache holds nothing (a 404 for an id that is not stored or whose
\* parent is not), and the cached listing entry is the one a listing writes
\* when memcache holds nothing.
C29_CacheCoherentAtDepthOne ==
    DepthAtMostOne(store) =>
        /\ \A levelId \in Ids : LevelEntriesFresh(levelId)
        /\ ListingEntryFresh

\* At depth one a child and its parent, the 404 of an id that does not
\* resolve and the listing are cached.
C29_Witness ==
    /\ DepthAtMostOne(store)
    /\ QueryCached
    /\ \E child \in DOMAIN store :
          /\ HasParentReference(store[child])
          /\ store[child].Parent \in DOMAIN store
          /\ LevelCached(child) /\ ResponseCached(child)
          /\ LevelCached(store[child].Parent)
    /\ \E levelId \in Ids :
          /\ ResponseCached(levelId)
          /\ HasCachedNotFound(cache, levelId)

----------------------------------------------------------------------------
(* C22 *)

\* The reference merge, from the store alone: the level of the chain of
\* parent references from levelId, levelId first, that sets property f.
RECURSIVE Provider(_, _, _)
Provider(s, levelId, f) ==
    IF levelId \notin DOMAIN s THEN {}
    ELSE IF s[levelId][Has(f)] THEN {levelId}
    ELSE IF HasParentReference(s[levelId]) THEN Provider(s, s[levelId].Parent, f)
    ELSE {}

\* The stored level with, for every property it leaves unset, the value of
\* the nearest level of its chain that sets it.
ReferenceLevel(s, levelId) ==
    [x \in DOMAIN s[levelId] |->
        IF \E f \in Fields : x = f /\ Provider(s, levelId, f) # {}
        THEN s[CHOOSE k \in Provider(s, levelId, x) : TRUE][x]
        ELSE IF \E f \in Fields : x = Has(f)
        THEN \E f \in Fields : x = Has(f) /\ Provider(s, levelId, f) # {}
        ELSE s[levelId][x]]

\* The level and every level of its chain are stored.
ChainStored(s, levelId) ==
    levelId \in DOMAIN s /\ AncestorsIn(s, levelId, {}) \subseteq DOMAIN s

ReferenceGet(s, levelId) ==
    IF ChainStored(s, levelId)
    THEN ContextJSON(StatusOK, MarshalJsonLevel(ToJsonLevel(ReferenceLevel(s, levelId))))
    ELSE ContextString(StatusNotFound, "Level does not exist")

ReferenceList(s) ==
    LET keys == SelectSeq(QueryAllKeys(s), LAMBDA id : ChainStored(s, id))
    IN  ContextJSON(StatusOK,
            MarshalJsonLevels([i \in 1..Len(keys) |->
                                  ToJsonLevel(ReferenceLevel(s, keys[i]))]))

\* The cache that the reads of every id and a listing leave.
WarmCache(s) ==
    Run([store |-> s, cache |-> <<>>],
        << Get("a"), Get("b"), Get("c"),
           [op |-> "LIST", id |-> "", body |-> EmptyLevel] >>).cache

\* C22: with a memcache that drops every entry, a GET and a listing that
\* have answered have answered the reference merge of the store (404 for a
\* level whose chain is not stored, which the listing leaves out), and a PUT,
\* POST or DELETE that has answered has left the store that the same request
\* leaves when memcache holds the entries of every level and the listing.
C22_CachelessAnswersFromStore ==
    \A slot \in Slots :
        LET call == calls[slot]
        IN  call.pc = "done" =>
              CASE call.op = "GET" -> call.resp = ReferenceGet(store, call.id)
                [] call.op = "LIST" -> call.resp = ReferenceList(store)
                [] call.op = "PUT" ->
                      store = handlePost(call.id, Deref(call.body),
                                         WarmCache(call.began.store),
                                         call.began.store).store
                [] call.op = "DELETE" ->
                      store = handleDelete(call.id, WarmCache(call.began.store),
                                           call.began.store).store

\* With a memcache that drops every entry, a GET of a level has answered
\* with a property of its parent's parent while memcache holds nothing.
C22_Witness ==
    /\ cache = <<>>
    /\ LET call == calls["reader"]
       IN  /\ call.op = "GET" /\ call.pc = "done" /\ Answered(call, StatusOK)
           /\ \E f \in Fields :
                 /\ Provider(store, call.id, f) # {}
                 /\ Provider(store, call.id, f)
                        \cap ({call.id} \cup {store[call.id].Parent}) = {}

----------------------------------------------------------------------------
(* C26 *)

\* The parent references of the store lead from the level back to it; the
\* levels of that cycle.
OnCycle(s, levelId) == levelId \in AncestorsIn(s, levelId, {})

CycleOf(s, levelId) ==
    {k \in AncestorsIn(s, levelId, {}) : levelId \in AncestorsIn(s, k, {})}

\* The chain of the level is stored and leads to a level without a parent
\* reference.
Acyclic(s, levelId) ==
    /\ ChainStored(s, levelId)
    /\ \A k \in {levelId} \cup AncestorsIn(s, levelId, {}) : ~OnCycle(s, k)

\* The resolve of a GET has begun: the response cache did not answer.
Resolving(call) ==
    /\ call.op = "GET" /\ call.log # <<>>
    /\ call.log[1][3] = ErrCacheMiss

\* C26: a PUT whose body names a parent that closes a cycle, the level
\* itself included, answers 200 and stores the reference.  A resolve of a
\* level of a cycle none of whose levels is in the level cache does not
\* return: the GET has not answered, it has cached nothing, and its calls
\* of getLevel follow the parent references however deep they are.  A GET
\* of a level whose chain has no cycle has read each level of the chain at
\* most once from the datastore, and no other level.
C26_CyclesAcceptedAndNeverResolved ==
    \A slot \in Slots :
        LET call == calls[slot]
        IN  /\ (call.op = "PUT" /\ call.pc = "done") =>
                  /\ call.resp = ContextJSON(StatusOK, JsonNull)
                  /\ store[call.id].Parent = ToDatastoreLevel(Deref(call.body)).Parent
            /\ ( /\ Resolving(call) /\ OnCycle(store, call.id)
                 /\ \A k \in CycleOf(store, call.id) : ~LevelCached(k) ) =>
                  /\ call.pc = "getLevel"
                  /\ call.resp = NoResponse
                  /\ IdsOf(call, "memcache.Set", "ok") = {}
                  /\ \A i \in 1..(Len(call.stack) - 1) :
                        call.stack[i + 1].id = store[call.stack[i].id].Parent
            /\ ( /\ Resolving(call) /\ call.pc = "done"
                 /\ Acyclic(store, call.id) ) =>
                  /\ \A k \in Ids :
                        Cardinality(Events(call, "datastore.Get", k)) <= 1
                  /\ IdsOf(call, "datastore.Get", "ok")
                        \subseteq {call.id} \cup AncestorsIn(store, call.id, {})

\* A GET of a level that an earlier PUT made its own ancestor has followed
\* the cycle of two levels more than twice round, to the depth the model
\* follows it.
C26_Witness ==
    LET call == calls["reader"]
    IN  /\ Resolving(call) /\ OnCycle(store, call.id)
        /\ Cardinality(CycleOf(store, call.id)) = 2
        /\ Len(call.stack) = MaxDepth
        /\ Len(call.stack) > 2 * Cardinality(CycleOf(store, call.id))
        /\ call.stack[5].id = call.id

\* A GET of a level of a cycle has answered, from a level entry cached
\* before the cycle was closed.
C26_ResolvedThroughCachedMember ==
    LET call == calls["reader"]
    IN  /\ Resolving(call) /\ OnCycle(store, call.id)
        /\ call.pc = "done" /\ Answered(call, StatusOK)

----------------------------------------------------------------------------
(* C31 *)

\* The cache keys that the invalidation of a write of `levelId` may evict:
\* the entries of the level, those of the levels that name it as parent,
\* and the listing entry.
InvalidatedKeys(levelId) ==
    KeysOf(levelId)
    \cup UNION {KeysOf(child) : child \in ChildIds(levelId)}
    \cup {ResponseCacheKey(queryAllKey)}

\* The call has written to the datastore and is in, or past, its invalidation.
Invalidating(call) ==
    IsWrite(call) /\ call.pc \in {"invalidate", "done"}

\* Every children query made by the call, or still to be made, is for `levelId`.
QueriesOnly(call, levelId) ==
    /\ \A i \in 1..Len(call.log) :
          call.log[i][1] = "query.GetAll" => call.log[i][2] = levelId
    /\ \A i \in 1..Len(call.todo) :
          call.todo[i][1] = "query.GetAll" => call.todo[i][2] = levelId

\* The number of children queries made by the call and still to be made.
QueryCount(call) ==
    Cardinality({i \in 1..Len(call.log) : call.log[i][1] = "query.GetAll"})
    + Cardinality({i \in 1..Len(call.todo) : call.todo[i][1] = "query.GetAll"})

\* Every eviction made by the call, or still to be made, is of one of `keys`.
EvictsOnly(call, keys) ==
    /\ \A i \in 1..Len(call.log) :
          call.log[i][1] = "memcache.Delete" => call.log[i][2] \in keys
    /\ \A i \in 1..Len(call.todo) :
          call.todo[i][1] = "memcache.Delete" => call.todo[i][2] \in keys

\* The invalidation of a PUT or DELETE of X, whatever the parent relation:
\* one children query, for X; evictions only of the entries of X, of the
\* levels that name X as parent and of the listing; and the calls made
\* together with the statements left never number more than the write, the
\* two evictions of X, the query, two evictions for each child, the eviction
\* of the listing and the response.
C31_InvalidationIsOneLevelDeep ==
    \A slot \in Slots :
        LET call == calls[slot]
        IN  Invalidating(call) =>
              /\ QueriesOnly(call, call.id)
              /\ QueryCount(call) = 1
              /\ EvictsOnly(call, InvalidatedKeys(call.id))
              /\ Len(call.log) + Len(call.todo)
                    <= 6 + 2 * Cardinality(ChildIds(call.id))
              /\ call.pc = "done" => call.todo = <<>>

\* C31: the invalidation run by a PUT or DELETE always terminates, also on
\* a cycle of parent references: a write that has reached its invalidation
\* goes on to its response and returns, having made one children query, for
\* the level written, and evicted only the entries of that level, of the
\* levels the query returned and the listing entry; it never queries the
\* children of a child.
C31_InvalidationTerminates ==
    /\ []C31_InvalidationIsOneLevelDeep
    /\ \A slot \in Slots :
          (IsWrite(calls[slot]) /\ calls[slot].pc = "invalidate")
             ~> (calls[slot].pc = "done" /\ calls[slot].todo = <<>>)

\* A PUT has closed a cycle of two levels and answered 200: the level it
\* wrote is the parent of its parent, and the PUT queried the children once
\* and evicted the entries of that child, whose own child it is.
C31_Witness ==
    \E slot \in Slots :
        LET call == calls[slot]
        IN  /\ call.op = "PUT" /\ call.pc = "done" /\ Answered(call, StatusOK)
            /\ ~OnCycle(call.began.store, call.id)
            /\ OnCycle(store, call.id)
            /\ Cardinality(CycleOf(store, call.id)) = 2
            /\ \E child \in ChildIds(call.id) \ {call.id} :
                  /\ child \in CycleOf(store, call.id)
                  /\ call.id \in ChildIds(child)
                  /\ \A key \in KeysOf(child) :
                        Events(call, "memcache.Delete", key) # {}
            /\ Cardinality(Events(call, "query.GetAll", call.id)) = 1

\* A DELETE of a level of a cycle of two levels has answered 200 after
\* evicting the entries of the level that named it as parent.
C31_DeleteOnCycle ==
    \E slot \in Slots :
        LET call == calls[slot]
        IN  /\ call.op = "DELETE" /\ call.pc = "done" /\ Answered(call, StatusOK)
            /\ OnCycle(call.began.store, call.id)
            /\ Cardinality(CycleOf(call.began.store, call.id)) = 2
            /\ \E child \in ChildIds(call.id) :
                  \A key \in KeysOf(child) :
                      Events(call, "memcache.Delete", key) # {}

\* A PUT that makes a level its own parent has answered 200: its children
\* query returned the level itself.
C31_SelfParentWitness ==
    \E slot \in Slots :
        LET call == calls[slot]
        IN  /\ call.op = "PUT" /\ call.pc = "done" /\ Answered(call, StatusOK)
            /\ call.id \in ChildIds(call.id)
            /\ Len(call.log) = 8

====
